---- MODULE Spec2Model ----
(***************************************************************************)
(* Model of the sgc tracing garbage collector (Flone-dnb/sgc).             *)
(*                                                                         *)
(* Memory is a flat address space.  A GC allocation `a` owns the block     *)
(* [Block(a), Block(a) + BlockSize): the GcAllocationInfo header first and *)
(* the user object right behind it.  GC nodes (GcPtr, GcVector) are        *)
(* identified by their address, as in the collector's root sets.           *)
(***************************************************************************)
EXTENDS Integers, Sequences, FiniteSets, TLC

(***************************************************************************)
(* Bounds of the model.                                                    *)
(***************************************************************************)
MaxAllocs == 2      \* blocks the allocator can hand out at the same time
MaxSlots == 1       \* GcPtr local variables per thread
MaxVecLen == 1      \* items per GcVector / std::vector
MaxItems == 2       \* items per GcVector in the programs that copy and move vectors
MaxDepth == 1       \* largest constructor argument of Foo (nested makeGc depth)
MaxWorkers == 2     \* worker threads of the thread pool

(***************************************************************************)
(* Program constants.                                                      *)
(***************************************************************************)
InfoSize == 1       \* sizeof(GcAllocationInfo): one `unsigned char` color

NULL == 0

\* the thread that runs the test body, and the thread pool's worker threads
MainThread == 1
Workers == (MainThread + 1)..(MainThread + MaxWorkers)
Threads == {MainThread} \cup Workers
AllocIds == 1..MaxAllocs

(***************************************************************************)
(* The user types of the test suite that the model allocates.              *)
(*   Foo    : MultithreadingTests.cpp, a GcPtr<Foo> field behind a string, *)
(*            the constructor calls makeGc<Foo>(n - 1) when n > 0.         *)
(*   VecFoo : VectorTests.cpp, a GcVector<GcPtr<..>> field.                *)
(*   StdFoo : VectorTests.cpp, a std::vector<GcPtr<..>> field (the GcPtr   *)
(*            items live in the vector's heap buffer, not in the object).  *)
(*   ThisFoo: VectorTests.cpp, a GcPtr<..> field that the constructor body *)
(*            binds to the object itself (`pThis = this;`).                *)
(*   LateFoo: a type with a member whose constructor calls makeGc<Foo>(0)  *)
(*            and drops the result (`Helper() { sgc::makeGc<Foo>(0); }`),  *)
(*            declared before a GcPtr<..> field: the field is constructed  *)
(*            after the nested makeGc call has returned.                   *)
(*   WaitFoo: README "Thread safety", a type without GC fields whose        *)
(*            constructor and destructor start a thread and wait for it     *)
(*            (`future.get()`).                                             *)
(* `fields` lists the GC nodes located inside the object in declaration    *)
(* (construction) order.                                                   *)
(***************************************************************************)
Types == {"Foo", "VecFoo", "StdFoo", "ThisFoo", "LateFoo", "WaitFoo"}
\* the types whose constructor does not use `this` and whose members other
\* than GcPtr / GcVector have constructors that do not call the library
PlainTypes == Types \ {"ThisFoo", "LateFoo", "WaitFoo"}

TypeLayout ==
    [Foo    |-> [size |-> 3, fields |-> <<[off |-> 1, kind |-> "ptr"]>>,  std |-> FALSE],
     VecFoo |-> [size |-> 2, fields |-> <<[off |-> 0, kind |-> "cont"]>>, std |-> FALSE],
     StdFoo |-> [size |-> 2, fields |-> <<>>,                             std |-> TRUE],
     ThisFoo |-> [size |-> 1, fields |-> <<[off |-> 0, kind |-> "ptr"]>>, std |-> FALSE],
     LateFoo |-> [size |-> 3, fields |-> <<[off |-> 2, kind |-> "ptr"]>>, std |-> FALSE],
     WaitFoo |-> [size |-> 1, fields |-> <<>>,                            std |-> FALSE]]

\* how many makeGc calls the constructor T(arg) makes, directly or nested
NestedCalls(T, arg) == IF T = "Foo" THEN arg ELSE IF T = "LateFoo" THEN 1 ELSE 0

getTypeSize(T) == TypeLayout[T].size

MaxOf(S) == CHOOSE x \in S : \A y \in S : y <= x
MinOf(S) == CHOOSE x \in S : \A y \in S : x <= y

BlockSize == InfoSize + MaxOf({getTypeSize(T) : T \in Types})

(***************************************************************************)
(* Address layout.                                                         *)
(***************************************************************************)
Block(a) == a * BlockSize
getAllocationInfo(a) == Block(a)
getAllocatedObject(a) == Block(a) + InfoSize

StackBase == (MaxAllocs + 1) * BlockSize
FrameSize == MaxSlots + MaxDepth + 3
\* i-th GcPtr local variable of thread t
VarAddr(t, i) == StackBase + t * FrameSize + i
\* the GcVector local variable of thread t
VecVarAddr(t) == StackBase + t * FrameSize + MaxSlots + 1
\* `pGcPtr` of the makeGc call at nesting depth d (0 = called from a constructor
\* of depth 1, ...); the outermost call constructs its result in the variable
TempAddr(t, d) == StackBase + t * FrameSize + MaxSlots + 2 + d
HeapBase == StackBase + (MaxOf(Threads) + 1) * FrameSize
\* i-th item of the std::vector buffer owned by the StdFoo object of allocation a
StdItemAddr(a, i) == HeapBase + a * (MaxVecLen + 1) + i
\* i-th item of the buffer of the GcVector at address v (vData.data() + i - 1):
\* the address names the item by the vector that owns the buffer
GcVecItemAddr(v, i) == HeapBase + (MaxAllocs + 1 + v) * (MaxItems + 1) + i

VARIABLES
    existingAllocations,   \* AllocationData::existingAllocations
    allocationInfoRefs,    \* AllocationData::allocationInfoRefs: info address -> allocation
    allocType,             \* GcAllocation::pTypeInfo of every block handed out
    color,                 \* GcAllocationInfo::color
    typeInfo,              \* the static GcTypeInfo of every type
    ptrTarget,             \* GcPtrBase::pAllocation of every living GcPtr that is not a GcVector item
    vData,                 \* GcVector::vData of every living GcVector (the items' pAllocation)
    isRoot,                \* GcNode::bIsRootNode of every living node
    stdItems,              \* addresses of the GcPtr items in the std::vector of a StdFoo object
    gcPtrRootNodes,        \* RootNodes::gcPtrRootNodes
    gcContainerRootNodes,  \* RootNodes::gcContainerRootNodes
    constructing,          \* mtxCurrentlyConstructingObjects.second
    vGrayAllocations,      \* GarbageCollector::vGrayAllocations
    gcOwner,               \* thread that holds mtxGcData.first (0: nobody)
    gcDepth,               \* how many times the owner locked the recursive mutex
    frames,                \* per thread: the calls in progress (innermost last)
    lastCollect,           \* the last call was collectGarbage: what it returned and found
    criticalError,         \* the last step called the critical error callback
    task,                  \* per worker thread: where its thread pool task is
    cancelTask,            \* the test's `std::atomic_flag cancelTask`
    DEBUG,                 \* the build defines the macro DEBUG
    pendingNodeGraphChanges, \* mtxPendingNodeGraphChanges.second (collector with pending changes)
    lastCall               \* the last step completed a call of the GcPtr / GcVector
                           \* interface: its arguments and what the caller found

vars == <<existingAllocations, allocationInfoRefs, allocType, color, typeInfo, ptrTarget,
          vData, isRoot, stdItems, gcPtrRootNodes, gcContainerRootNodes, constructing,
          vGrayAllocations, gcOwner, gcDepth, frames, lastCollect, criticalError,
          task, cancelTask, DEBUG, pendingNodeGraphChanges, lastCall>>

(***************************************************************************)
(* Small helpers.                                                          *)
(***************************************************************************)
Put(f, k, v) == [x \in DOMAIN f \cup {k} |-> IF x = k THEN v ELSE f[x]]
Drop(f, S) == [x \in DOMAIN f \ S |-> f[x]]
Range(s) == {s[i] : i \in 1..Len(s)}

RECURSIVE SetToSeq(_)
SetToSeq(S) == IF S = {} THEN <<>> ELSE LET m == MinOf(S) IN <<m>> \o SetToSeq(S \ {m})

RemoveAt(s, i) == SubSeq(s, 1, i - 1) \o SubSeq(s, i + 1, Len(s))

(***************************************************************************)
(* Type registry: GcTypeInfo::tryRegisteringGcNodeFieldOffset.             *)
(* `tinfo` is the state of all static GcTypeInfo objects, `T` the type of  *)
(* the candidate owner allocation `a`.                                     *)
(***************************************************************************)
\* a type registry that claims no node
belongsToNobody(tinfo, node, kind, a, T) == [belongs |-> FALSE, tinfo |-> tinfo]

\* a type registry that records the address of the node instead of its offset
registerNodeAddress(tinfo, node, kind, a, T) ==
    LET iOwnerAddress == getAllocatedObject(a)
    IN  IF node < iOwnerAddress \/ node >= iOwnerAddress + getTypeSize(T)
        THEN [belongs |-> FALSE, tinfo |-> tinfo]
        ELSE [belongs |-> TRUE,
              tinfo |-> IF kind = "cont"
                        THEN [tinfo EXCEPT ![T].vGcContainerFieldOffsets = Append(@, node)]
                        ELSE [tinfo EXCEPT ![T].vGcPtrFieldOffsets = Append(@, node)]]

tryRegisteringGcNodeFieldOffset(tinfo, node, kind, a, T) ==
    LET iOwnerAddress == getAllocatedObject(a)
    IN  IF node < iOwnerAddress \/ node >= iOwnerAddress + getTypeSize(T)
        THEN [belongs |-> FALSE, tinfo |-> tinfo]
        ELSE IF tinfo[T].bAllGcNodeFieldOffsetsInitialized
        THEN [belongs |-> TRUE, tinfo |-> tinfo]
        ELSE LET iFullOffset == node - iOwnerAddress
             IN  [belongs |-> TRUE,
                  tinfo |-> IF kind = "cont"
                            THEN [tinfo EXCEPT ![T].vGcContainerFieldOffsets = Append(@, iFullOffset)]
                            ELSE [tinfo EXCEPT ![T].vGcPtrFieldOffsets = Append(@, iFullOffset)]]

(***************************************************************************)
(* GarbageCollector::onGcNodeConstructed, first block: walk the array of   *)
(* currently constructing allocations from the last to the first one.      *)
(***************************************************************************)
RECURSIVE findParentAllocation(_, _, _, _, _, _)
findParentAllocation(i, stack, types, tinfo, node, kind) ==
    IF i = 0
    THEN [belongs |-> FALSE, tinfo |-> tinfo]
    ELSE LET r == tryRegisteringGcNodeFieldOffset(tinfo, node, kind, stack[i], types[stack[i]])
         IN  IF r.belongs THEN r
             ELSE findParentAllocation(i - 1, stack, types, tinfo, node, kind)

(***************************************************************************)
(* The node part of the collector state, threaded through the steps that   *)
(* construct or destroy several nodes in one go.                           *)
(***************************************************************************)
NodeWorld ==
    [typeInfo |-> typeInfo, ptrTarget |-> ptrTarget, vData |-> vData, isRoot |-> isRoot,
     stdItems |-> stdItems, gcPtrRootNodes |-> gcPtrRootNodes,
     gcContainerRootNodes |-> gcContainerRootNodes, errors |-> 0]

\* a collector that classifies every node as a non-root node
classifyNonRoot(w, node, kind, stack, types) == [w EXCEPT !.isRoot = Put(@, node, FALSE)]

\* a collector that puts every node into the root set of its kind and leaves
\* the node's flag unset
registerWithoutFlag(w, node, kind, stack, types) ==
    IF kind = "cont"
    THEN [w EXCEPT !.gcContainerRootNodes = @ \cup {node}, !.isRoot = Put(@, node, FALSE)]
    ELSE [w EXCEPT !.gcPtrRootNodes = @ \cup {node}, !.isRoot = Put(@, node, FALSE)]

\* GarbageCollector::onGcNodeConstructed: returns the world with the node
\* classified (field of a constructing object, or root node).
onGcNodeConstructed(w, node, kind, stack, types) ==
    LET r == findParentAllocation(Len(stack), stack, types, w.typeInfo, node, kind)
    IN  IF r.belongs
        THEN [w EXCEPT !.typeInfo = r.tinfo, !.isRoot = Put(@, node, FALSE)]
        ELSE IF kind = "cont"
        THEN [w EXCEPT !.gcContainerRootNodes = @ \cup {node}, !.isRoot = Put(@, node, TRUE)]
        ELSE [w EXCEPT !.gcPtrRootNodes = @ \cup {node}, !.isRoot = Put(@, node, TRUE)]

\* a GcPtr constructor that asks the collector whatever bCanBeRootNode says
GcPtrBaseAlwaysAsks(w, node, bCanBeRootNode, stack, types) ==
    onGcNodeConstructed(w, node, "ptr", stack, types)

\* GcPtrBase::GcPtrBase(bCanBeRootNode)
GcPtrBase(w, node, bCanBeRootNode, stack, types) ==
    IF ~bCanBeRootNode
    THEN [w EXCEPT !.isRoot = Put(@, node, FALSE)]
    ELSE onGcNodeConstructed(w, node, "ptr", stack, types)

\* GcPtr<T>::GcPtr() for a GcPtr that is not a GcVector item.
constructGcPtr(w, node, bCanBeRootNode, stack, types) ==
    [GcPtrBase(w, node, bCanBeRootNode, stack, types) EXCEPT !.ptrTarget = Put(@, node, NULL)]

\* the items 1..n of the GcVector at v
ItemNodesOf(v, n) == [i \in 1..n |-> GcVecItemAddr(v, i)]

\* vec_item_t = GcPtr<T, false>: the constructors of the items from..to of the
\* GcVector at v (their targets are kept in vData)
RECURSIVE constructVecItems(_, _, _, _, _, _)
constructVecItems(w, v, from, to, stack, types) ==
    IF from > to THEN w
    ELSE constructVecItems(GcPtrBase(w, GcVecItemAddr(v, from), FALSE, stack, types),
                           v, from + 1, to, stack, types)

\* GcVector::GcVector() through GcContainerBase::GcContainerBase.
constructGcVector(w, node, stack, types) ==
    LET w1 == onGcNodeConstructed(w, node, "cont", stack, types)
    IN  [w1 EXCEPT !.vData = Put(@, node, <<>>)]

\* a collector that leaves a destroyed root node in its root set
forgetDestroyedRoot(w, node, kind) == w

\* GarbageCollector::onGcRootNodeBeingDestroyed: erase from the root set of
\* the node's kind, critical error when it is not there.
onGcRootNodeBeingDestroyed(w, node, kind) ==
    IF kind = "cont"
    THEN IF node \in w.gcContainerRootNodes
         THEN [w EXCEPT !.gcContainerRootNodes = @ \ {node}]
         ELSE [w EXCEPT !.errors = @ + 1]
    ELSE IF node \in w.gcPtrRootNodes
         THEN [w EXCEPT !.gcPtrRootNodes = @ \ {node}]
         ELSE [w EXCEPT !.errors = @ + 1]

\* GcPtrBase::onGcPtrBeingDestroyed and the end of the GcPtr's life.
destroyGcPtr(w, node) ==
    LET w1 == IF w.isRoot[node] THEN onGcRootNodeBeingDestroyed(w, node, "ptr") ELSE w
    IN  [w1 EXCEPT !.ptrTarget = Drop(@, {node}), !.isRoot = Drop(@, {node})]

RECURSIVE destroyGcPtrs(_, _)
destroyGcPtrs(w, nodes) ==
    IF nodes = <<>> THEN w ELSE destroyGcPtrs(destroyGcPtr(w, Head(nodes)), Tail(nodes))

\* ~GcVector: GcContainerBase::notifyGarbageCollectorAboutDestruction (the
\* items are destroyed with vData, see SetWorld).
destroyGcVector(w, node) ==
    LET w1 == IF w.isRoot[node] THEN onGcRootNodeBeingDestroyed(w, node, "cont") ELSE w
    IN  [w1 EXCEPT !.vData = Drop(@, {node}), !.isRoot = Drop(@, {node})]

(***************************************************************************)
(* GcPtrBase::getUserObject and GcPtrBase::setAllocationFromUserObject.    *)
(***************************************************************************)
getUserObject(target) == IF target = NULL THEN NULL ELSE getAllocatedObject(target)

\* a binding that computes the allocation from the address without the lookup
bindUnchecked(old, pUserObject, infoRefs) ==
    [ok |-> TRUE,
     target |-> IF pUserObject = NULL THEN NULL ELSE (pUserObject - InfoSize) \div BlockSize]

\* a binding that accepts nothing but nullptr
bindAlwaysThrows(old, pUserObject, infoRefs) ==
    IF pUserObject = NULL THEN [ok |-> TRUE, target |-> NULL] ELSE [ok |-> FALSE, target |-> old]

\* The allocation a GcPtr points to after setAllocationFromUserObject(raw):
\* ok = FALSE is the critical error (the call throws, the GcPtr keeps `old`).
setAllocationFromUserObject(old, pUserObject, infoRefs) ==
    IF pUserObject = NULL
    THEN [ok |-> TRUE, target |-> NULL]
    ELSE IF pUserObject < InfoSize
    THEN [ok |-> FALSE, target |-> old]
    ELSE LET pNewAllocationInfo == pUserObject - InfoSize
         IN  IF pNewAllocationInfo \notin DOMAIN infoRefs
             THEN [ok |-> FALSE, target |-> old]
             ELSE [ok |-> TRUE, target |-> infoRefs[pNewAllocationInfo]]

(***************************************************************************)
(* GarbageCollector::collectGarbage.                                       *)
(*                                                                         *)
(* The mark state m: the colors, the gray array, `critical` = TRUE once    *)
(* the debug check of markAllocationAndProcessFields threw (the rest of    *)
(* the collection is then skipped), `wild` = TRUE when a learned offset    *)
(* made the collector read a node that does not exist, `scanned` = the     *)
(* allocations in the order markAllocationAndProcessFields ran on them.    *)
(* The unordered sets are walked in ascending address order.               *)
(***************************************************************************)
\* the lambda handed to the container's item iteration function
visitGcPtrItem(m, target) ==
    IF target = NULL THEN m
    ELSE IF m.color[target] # "WHITE" THEN m
    ELSE [m EXCEPT !.gray = Append(@, target)]

RECURSIVE visitGcPtrItems(_, _)
visitGcPtrItems(m, targets) ==
    IF targets = <<>> THEN m
    ELSE visitGcPtrItems(visitGcPtrItem(m, Head(targets)), Tail(targets))

\* GcVector::iterateOverGcPtrItems called through markContainerItems
markContainerItems(m, pContainer, world) ==
    IF pContainer \notin DOMAIN world.vData
    THEN [m EXCEPT !.wild = TRUE]
    ELSE visitGcPtrItems(m, world.vData[pContainer])

RECURSIVE markGcPtrFields(_, _, _, _)
markGcPtrFields(m, pObject, offsets, world) ==
    IF offsets = <<>> THEN m
    ELSE LET pGcPtrField == pObject + Head(offsets)
             m1 == IF pGcPtrField \notin DOMAIN world.ptrTarget
                   THEN [m EXCEPT !.wild = TRUE]
                   ELSE visitGcPtrItem(m, world.ptrTarget[pGcPtrField])
         IN  markGcPtrFields(m1, pObject, Tail(offsets), world)

RECURSIVE markGcContainerFields(_, _, _, _)
markGcContainerFields(m, pObject, offsets, world) ==
    IF offsets = <<>> THEN m
    ELSE markGcContainerFields(markContainerItems(m, pObject + Head(offsets), world),
                               pObject, Tail(offsets), world)

\* a mark step without the check of the type's flag
markUnchecked(m, pAllocation, types, world) ==
    LET info == world.typeInfo[types[pAllocation]]
        m1 == [m EXCEPT !.color[pAllocation] = "BLACK", !.scanned = Append(@, pAllocation)]
    IN  markGcContainerFields(
            markGcPtrFields(m1, getAllocatedObject(pAllocation), info.vGcPtrFieldOffsets, world),
            getAllocatedObject(pAllocation), info.vGcContainerFieldOffsets, world)

\* a mark step that leaves the allocation WHITE
leaveWhite(m, pAllocation, types, world) == m

markAllocationAndProcessFields(m, pAllocation, types, world) ==
    LET info == world.typeInfo[types[pAllocation]]
        m1 == [m EXCEPT !.color[pAllocation] = "BLACK", !.scanned = Append(@, pAllocation)]
    IN  IF DEBUG /\ ~info.bAllGcNodeFieldOffsetsInitialized
        THEN [m1 EXCEPT !.critical = TRUE]
        ELSE markGcContainerFields(
                 markGcPtrFields(m1, getAllocatedObject(pAllocation), info.vGcPtrFieldOffsets, world),
                 getAllocatedObject(pAllocation), info.vGcContainerFieldOffsets, world)

\* a drain that processes one allocation and leaves the rest in the array
popOnlyOnce(m, types, world) ==
    IF m.critical \/ m.gray = <<>> THEN m
    ELSE markAllocationAndProcessFields([m EXCEPT !.gray = SubSeq(@, 1, Len(@) - 1)],
                                        m.gray[Len(m.gray)], types, world)

\* "Process pending allocations": pop from the back until the array is empty
RECURSIVE processGrayAllocations(_, _, _)
processGrayAllocations(m, types, world) ==
    IF m.critical \/ m.gray = <<>> THEN m
    ELSE LET pAllocation == m.gray[Len(m.gray)]
             m1 == [m EXCEPT !.gray = SubSeq(@, 1, Len(@) - 1)]
         IN  processGrayAllocations(
                 markAllocationAndProcessFields(m1, pAllocation, types, world), types, world)

\* a mark phase that ignores the root pointers
skipRootGcPtrs(m, roots, types, world) == m

RECURSIVE markFromRootGcPtrs(_, _, _, _)
markFromRootGcPtrs(m, roots, types, world) ==
    IF m.critical \/ roots = <<>> THEN m
    ELSE LET pGcPtr == Head(roots)
             m1 == IF world.ptrTarget[pGcPtr] = NULL THEN m
                   ELSE processGrayAllocations(
                            markAllocationAndProcessFields(m, world.ptrTarget[pGcPtr], types, world),
                            types, world)
         IN  markFromRootGcPtrs(m1, Tail(roots), types, world)

RECURSIVE markFromRootGcContainers(_, _, _, _)
markFromRootGcContainers(m, roots, types, world) ==
    IF m.critical \/ roots = <<>> THEN m
    ELSE markFromRootGcContainers(
             processGrayAllocations(markContainerItems(m, Head(roots), world), types, world),
             Tail(roots), types, world)

\* the reset and the mark phase of collectGarbage
markPhase(existing, gray, types, world) ==
    LET m0 == [color |-> [a \in AllocIds |-> IF a \in existing THEN "WHITE" ELSE color[a]],
               gray |-> gray, critical |-> FALSE, wild |-> FALSE, scanned |-> <<>>]
        m1 == markFromRootGcPtrs(m0, SetToSeq(world.gcPtrRootNodes), types, world)
    IN  markFromRootGcContainers(m1, SetToSeq(world.gcContainerRootNodes), types, world)

(***************************************************************************)
(* GcAllocation::~GcAllocation: the destructor of the user object destroys *)
(* the nodes the object holds (its GcPtr and GcVector fields, the items of *)
(* its std::vector), then the block is freed.                              *)
(***************************************************************************)
RECURSIVE destroyFields(_, _, _)
destroyFields(w, pObject, fields) ==
    IF fields = <<>> THEN w
    ELSE LET f == fields[Len(fields)]
             w1 == IF f.kind = "cont" THEN destroyGcVector(w, pObject + f.off)
                   ELSE destroyGcPtr(w, pObject + f.off)
         IN  destroyFields(w1, pObject, SubSeq(fields, 1, Len(fields) - 1))

invokeDestructor(w, a, T) ==
    LET w1 == destroyFields(w, getAllocatedObject(a), TypeLayout[T].fields)
        w2 == destroyGcPtrs(w1, w1.stdItems[a])
    IN  [w2 EXCEPT !.stdItems[a] = <<>>]

\* a sweep that erases and deletes a WHITE allocation without counting it
deleteWithoutCounting(s, pAllocation, types) ==
    [s EXCEPT !.existing = @ \ {pAllocation},
              !.infoRefs = Drop(@, {getAllocationInfo(pAllocation)}),
              !.world = invokeDestructor(@, pAllocation, types[pAllocation])]

\* a sweep that leaves the info of a deleted allocation in the info index
deleteKeepingInfo(s, pAllocation, types) ==
    [s EXCEPT !.existing = @ \ {pAllocation},
              !.world = invokeDestructor(@, pAllocation, types[pAllocation]),
              !.iDeletedObjectCount = @ + 1]

\* one WHITE allocation of the sweep: erased from both collections, deleted, counted
deleteAllocation(s, pAllocation, types) ==
    LET info == getAllocationInfo(pAllocation)
    IN  [s EXCEPT !.existing = @ \ {pAllocation},
                  !.infoRefs = Drop(@, {info}),
                  !.warnings = IF info \in DOMAIN s.infoRefs THEN @ ELSE @ + 1,
                  !.world = invokeDestructor(@, pAllocation, types[pAllocation]),
                  !.iDeletedObjectCount = @ + 1]

\* the sweep phase: s carries the allocation data, the node world and the count
\* a sweep that frees nothing
skipSweep(s, todo, colors, types) == s

RECURSIVE sweepPhase(_, _, _, _)
sweepPhase(s, todo, colors, types) ==
    IF todo = <<>> THEN s
    ELSE LET pAllocation == Head(todo)
         IN  IF colors[pAllocation] # "WHITE"
             THEN sweepPhase(s, Tail(todo), colors, types)
             ELSE sweepPhase(deleteAllocation(s, pAllocation, types), Tail(todo), colors, types)

\* collectGarbage as a whole: the result of running it on the current state
collectGarbage ==
    LET m == markPhase(existingAllocations, vGrayAllocations, allocType, NodeWorld)
        s0 == [existing |-> existingAllocations, infoRefs |-> allocationInfoRefs,
               world |-> NodeWorld, warnings |-> 0, iDeletedObjectCount |-> 0]
        s == IF m.critical THEN s0
             ELSE sweepPhase(s0, SetToSeq(existingAllocations), m.color, allocType)
    IN  [mark |-> m, sweep |-> s]

(***************************************************************************)
(* The initial state: a fresh process, nothing allocated, no node alive.   *)
(***************************************************************************)
(***************************************************************************)
(* What user code of a thread can name: its local variables, and the       *)
(* objects it gets to by dereferencing GcPtrs (`p->pInnerFoo`,             *)
(* `p->vGcArray[0]`, `p->vStdArray[0]`).                                   *)
(***************************************************************************)
LocalPtrs(t) == {VarAddr(t, i) : i \in 1..MaxSlots} \cap DOMAIN ptrTarget
LocalVecs(t) == {VecVarAddr(t)} \cap DOMAIN vData

FieldNodes(a, kind) ==
    IF a \notin existingAllocations THEN {}
    ELSE {getAllocatedObject(a) + TypeLayout[allocType[a]].fields[i].off :
            i \in {j \in DOMAIN TypeLayout[allocType[a]].fields :
                        TypeLayout[allocType[a]].fields[j].kind = kind}}

PtrNodesOf(a) ==
    IF a \notin existingAllocations THEN {}
    ELSE (FieldNodes(a, "ptr") \cup Range(stdItems[a])) \cap DOMAIN ptrTarget
VecNodesOf(a) == FieldNodes(a, "cont") \cap DOMAIN vData

TargetsOf(ptrs, vecs) ==
    ({ptrTarget[n] : n \in ptrs} \cup UNION {Range(vData[v]) : v \in vecs}) \ {NULL}

RECURSIVE Closure(_, _)
Closure(todo, seen) ==
    IF todo = {} THEN seen
    ELSE LET a == CHOOSE x \in todo : TRUE
             next == TargetsOf(PtrNodesOf(a), VecNodesOf(a))
         IN  Closure((todo \cup next) \ (seen \cup {a}), seen \cup {a})

UserObjects(t) == Closure(TargetsOf(LocalPtrs(t), LocalVecs(t)), {})
UserPtrs(t) == LocalPtrs(t) \cup UNION {PtrNodesOf(a) : a \in UserObjects(t)}
UserVecs(t) == LocalVecs(t) \cup UNION {VecNodesOf(a) : a \in UserObjects(t)}

(***************************************************************************)
(* The object graph as the memory layout has it (not as the collector's    *)
(* type information describes it): the allocations reachable from the root *)
(* sets through GcPtr fields and GcVector items.                           *)
(***************************************************************************)
GcFieldTargets(a) ==
    TargetsOf(FieldNodes(a, "ptr") \cap DOMAIN ptrTarget, FieldNodes(a, "cont") \cap DOMAIN vData)

RECURSIVE GcClosure(_, _)
GcClosure(todo, seen) ==
    IF todo = {} THEN seen
    ELSE LET a == CHOOSE x \in todo : TRUE
         IN  GcClosure((todo \cup GcFieldTargets(a)) \ (seen \cup {a}), seen \cup {a})

RootTargets == TargetsOf(gcPtrRootNodes \cap DOMAIN ptrTarget, gcContainerRootNodes \cap DOMAIN vData)
ReachableFromRoots == GcClosure(RootTargets, {})

\* PendingNodeGraphChanges: the four sets start empty
NoPendingChanges ==
    [newGcPtrRootNodes |-> {}, newGcContainerRootNodes |-> {},
     destroyedGcPtrRootNodes |-> {}, destroyedGcContainerRootNodes |-> {}]

(***************************************************************************)
(* What the caller of the last step observed, if that step was a call of   *)
(* collectGarbage: its return value, and the collector's data as they were *)
(* when the call took the mutex.                                           *)
(***************************************************************************)
NoCollect == [called |-> FALSE, valid |-> FALSE, returned |-> 0, consecutive |-> FALSE,
              existingBefore |-> {}, reachableBefore |-> {},
              ptrRootsBefore |-> {}, contRootsBefore |-> {},
              pendingBefore |-> NoPendingChanges]

(***************************************************************************)
(* What the caller of the last step observed, if that step completed an    *)
(* assignment to a GcPtr or a GcVector: the operands, the targets (items)  *)
(* they had before the call, whether the call returned (ok) or threw, and  *)
(* the allocations that a collectGarbage call returning just before the    *)
(* assignment had freed.                                                   *)
(***************************************************************************)
NoCall == [op |-> "none", dst |-> NULL, src |-> NULL, raw |-> NULL, ok |-> TRUE,
           dstBefore |-> NULL, srcBefore |-> NULL, itemsBefore |-> <<>>, freed |-> {}]

InitOfBuild(bDebug) ==
    /\ existingAllocations = {}
    /\ allocationInfoRefs = <<>>
    /\ allocType = [a \in AllocIds |-> "none"]
    /\ color = [a \in AllocIds |-> "WHITE"]
    /\ typeInfo = [T \in Types |-> [vGcPtrFieldOffsets |-> <<>>,
                                    vGcContainerFieldOffsets |-> <<>>,
                                    bAllGcNodeFieldOffsetsInitialized |-> FALSE]]
    /\ ptrTarget = <<>>
    /\ vData = <<>>
    /\ isRoot = <<>>
    /\ stdItems = [a \in AllocIds |-> <<>>]
    /\ gcPtrRootNodes = {}
    /\ gcContainerRootNodes = {}
    /\ constructing = <<>>
    /\ vGrayAllocations = <<>>
    /\ gcOwner = 0
    /\ gcDepth = 0
    /\ frames = [t \in Threads |-> <<>>]
    /\ lastCollect = NoCollect
    /\ criticalError = FALSE
    /\ task = [t \in Workers |-> "waiting"]
    /\ cancelTask = FALSE
    /\ DEBUG = bDebug
    /\ pendingNodeGraphChanges = NoPendingChanges
    /\ lastCall = NoCall

\* the specifications below model the build that defines DEBUG unless they say otherwise
Init == InitOfBuild(TRUE)

\* a build with DEBUG and a build without it
InitAnyBuild == \E bDebug \in BOOLEAN : InitOfBuild(bDebug)

(***************************************************************************)
(* The recursive mutex mtxGcData.first.                                    *)
(***************************************************************************)
\* a mutex that makeGc gives up once the fields of the new object are constructed
MutexFreeAfterFields(t) ==
    IF gcOwner \in {0, t} THEN TRUE
    ELSE frames[gcOwner][Len(frames[gcOwner])].pc \in {"body", "guard"}

\* a mutex that its owner cannot lock a second time (std::mutex)
lockIfFree(t) == gcOwner = 0

\* a mutex that other threads can lock while its owner waits for a thread
lockWhileOwnerWaits(t) ==
    IF gcOwner \in {0, t} THEN TRUE
    ELSE frames[gcOwner][Len(frames[gcOwner])].pc = "wait"

\* std::recursive_mutex: lock() returns when nobody else owns the mutex
CanLock(t) == gcOwner \in {0, t}
Idle(t) == frames[t] = <<>>
Top(t) == frames[t][Len(frames[t])]
SetTop(t, f) == [frames EXCEPT ![t][Len(frames[t])] = f]
Pop(t) == [frames EXCEPT ![t] = SubSeq(@, 1, Len(@) - 1)]

\* the step took and released the mutex: who holds it does not change
LockUnchanged == UNCHANGED <<gcOwner, gcDepth>>

\* The items of a GcVector (GcPtr<T, false> objects in the buffer of vData) are
\* destroyed when the vector is cleared or destroyed: ~GcPtr of an item takes it
\* out of the root set if it is a root.
IsVecItem(n) == n >= GcVecItemAddr(0, 0)
IsDeadVecItem(vecs, n) ==
    IsVecItem(n) /\ ~\E v \in DOMAIN vecs : \E i \in 1..Len(vecs[v]) : n = GcVecItemAddr(v, i)

SetWorld(w) ==
    /\ typeInfo' = w.typeInfo
    /\ ptrTarget' = w.ptrTarget
    /\ vData' = w.vData
    /\ isRoot' = [n \in {x \in DOMAIN w.isRoot : ~IsDeadVecItem(w.vData, x)} |-> w.isRoot[n]]
    /\ stdItems' = w.stdItems
    /\ gcPtrRootNodes' = {x \in w.gcPtrRootNodes : ~IsDeadVecItem(w.vData, x)}
    /\ gcContainerRootNodes' = w.gcContainerRootNodes

AllocUnchanged == UNCHANGED <<existingAllocations, allocationInfoRefs, allocType, color>>

FreeSlots(t) == {i \in 1..MaxSlots : VarAddr(t, i) \notin DOMAIN ptrTarget}
LiveVars(t) == {i \in 1..MaxSlots : VarAddr(t, i) \in DOMAIN ptrTarget}

(***************************************************************************)
(* makeGc<Type>(arg), called by user code outside of any constructor.      *)
(* First statement: `GcPtr<Type> pGcPtr;` (the result object, constructed  *)
(* in the caller's variable).                                              *)
(***************************************************************************)
MakeGcBegin(t, T, arg) ==
    /\ Idle(t)
    /\ CanLock(t)
    /\ FreeSlots(t) # {}
    /\ arg = 0 \/ T = "Foo"
    /\ Cardinality(existingAllocations) + NestedCalls(T, arg) + 1 <= MaxAllocs
    /\ LET node == VarAddr(t, MinOf(FreeSlots(t)))
       IN  /\ SetWorld(constructGcPtr(NodeWorld, node, TRUE, constructing, allocType))
           /\ frames' = [frames EXCEPT ![t] = Append(@,
                  [op |-> "makeGc", pc |-> "alloc", type |-> T, arg |-> arg,
                   node |-> node, alloc |-> NULL, dest |-> NULL])]
    /\ lastCollect' = NoCollect
    /\ criticalError' = FALSE
    /\ AllocUnchanged
    /\ LockUnchanged
    /\ UNCHANGED <<constructing, vGrayAllocations>>

(***************************************************************************)
(* GcPtrBase::initializeFromNewAllocation locks the mutex and calls        *)
(* GcAllocation::registerNewAllocationWithInfo: the block is allocated,    *)
(* GcAllocation::GcAllocation adds it to the collector's data, the info is *)
(* constructed (WHITE) and the construction guard pushes the allocation.   *)
(***************************************************************************)
NewBlock(existing) == MinOf(AllocIds \ existing)

\* an allocation registered and pushed without locking the mutex
MakeGcAllocUnlocked(t) ==
    /\ ~Idle(t)
    /\ Top(t).op = "makeGc" /\ Top(t).pc = "alloc"
    /\ Cardinality(AllocIds \ existingAllocations) >= NestedCalls(Top(t).type, Top(t).arg) + 1
    /\ LET a == NewBlock(existingAllocations)
       IN  /\ existingAllocations' = existingAllocations \cup {a}
           /\ allocationInfoRefs' = Put(allocationInfoRefs, getAllocationInfo(a), a)
           /\ allocType' = [allocType EXCEPT ![a] = Top(t).type]
           /\ color' = [color EXCEPT ![a] = "WHITE"]
           /\ constructing' = Append(constructing, a)
           /\ frames' = SetTop(t, [Top(t) EXCEPT !.pc = "fields", !.alloc = a])
    /\ lastCollect' = NoCollect
    /\ criticalError' = FALSE
    /\ UNCHANGED <<typeInfo, ptrTarget, vData, isRoot, stdItems, gcPtrRootNodes,
                   gcContainerRootNodes, vGrayAllocations, gcOwner, gcDepth>>

MakeGcAlloc(t) ==
    /\ ~Idle(t)
    /\ Top(t).op = "makeGc" /\ Top(t).pc = "alloc"
    /\ CanLock(t)
    /\ Cardinality(AllocIds \ existingAllocations) >= NestedCalls(Top(t).type, Top(t).arg) + 1
    /\ LET a == NewBlock(existingAllocations)
       IN  /\ existingAllocations' = existingAllocations \cup {a}
           /\ allocationInfoRefs' = Put(allocationInfoRefs, getAllocationInfo(a), a)
           /\ allocType' = [allocType EXCEPT ![a] = Top(t).type]
           /\ color' = [color EXCEPT ![a] = "WHITE"]
           /\ constructing' = Append(constructing, a)
           /\ frames' = SetTop(t, [Top(t) EXCEPT !.pc = "fields", !.alloc = a])
    /\ gcOwner' = t
    /\ gcDepth' = gcDepth + 1
    /\ lastCollect' = NoCollect
    /\ criticalError' = FALSE
    /\ UNCHANGED <<typeInfo, ptrTarget, vData, isRoot, stdItems, gcPtrRootNodes,
                   gcContainerRootNodes, vGrayAllocations>>

(***************************************************************************)
(* The constructor of the user type starts: the fields are constructed in  *)
(* declaration order, every GcPtr / GcVector field notifies the collector. *)
(***************************************************************************)
RECURSIVE constructFields(_, _, _, _, _)
constructFields(w, pObject, fields, stack, types) ==
    IF fields = <<>> THEN w
    ELSE LET f == Head(fields)
             w1 == IF f.kind = "cont"
                   THEN constructGcVector(w, pObject + f.off, stack, types)
                   ELSE constructGcPtr(w, pObject + f.off, TRUE, stack, types)
         IN  constructFields(w1, pObject, Tail(fields), stack, types)

MakeGcFields(t) ==
    /\ ~Idle(t)
    /\ Top(t).op = "makeGc" /\ Top(t).pc = "fields"
    /\ Top(t).type # "LateFoo"
    /\ LET a == Top(t).alloc
           w == constructFields(NodeWorld, getAllocatedObject(a),
                                TypeLayout[Top(t).type].fields, constructing, allocType)
       IN  SetWorld([w EXCEPT !.stdItems[a] = <<>>])
    /\ frames' = SetTop(t, [Top(t) EXCEPT !.pc = "body"])
    /\ lastCollect' = NoCollect
    /\ criticalError' = FALSE
    /\ AllocUnchanged
    /\ LockUnchanged
    /\ UNCHANGED <<constructing, vGrayAllocations>>

(***************************************************************************)
(* The constructor body.  Foo(iChildCount) with iChildCount > 0 runs       *)
(* `pInnerFoo = sgc::makeGc<Foo>(iChildCount - 1)`: the nested makeGc      *)
(* constructs its `pGcPtr` on the stack.  ThisFoo() runs `pThis = this;`,  *)
(* GcPtr's assignment from a raw pointer.  Other bodies are empty.         *)
(***************************************************************************)
\* a constructor body whose `pThis = this;` finds no allocation to bind to
bindThisFails(target, pUserObject, infoRefs) == [ok |-> FALSE, target |-> target]

\* `pThis = this;`: the result of binding the field to the object's own address
bindThis(target, pUserObject, infoRefs) ==
    setAllocationFromUserObject(target, pUserObject, infoRefs)

MakeGcBody(t) ==
    /\ ~Idle(t)
    /\ Top(t).op = "makeGc" /\ Top(t).pc = "body"
    /\ IF Top(t).type = "Foo" /\ Top(t).arg > 0
       THEN LET node == TempAddr(t, Len(frames[t]) - 1)
                pInnerFoo == getAllocatedObject(Top(t).alloc) + TypeLayout["Foo"].fields[1].off
            IN  /\ SetWorld(constructGcPtr(NodeWorld, node, TRUE, constructing, allocType))
                /\ frames' = [frames EXCEPT ![t] =
                       Append(SubSeq(@, 1, Len(@) - 1), [Top(t) EXCEPT !.pc = "guard"])
                       \o <<[op |-> "makeGc", pc |-> "alloc", type |-> "Foo",
                             arg |-> Top(t).arg - 1, node |-> node, alloc |-> NULL,
                             dest |-> pInnerFoo]>>]
                /\ criticalError' = FALSE
       ELSE IF Top(t).type = "ThisFoo"
       THEN LET this == getAllocatedObject(Top(t).alloc)
                pThis == this + TypeLayout["ThisFoo"].fields[1].off
                r == bindThis(ptrTarget[pThis], this, allocationInfoRefs)
            IN  /\ ptrTarget' = [ptrTarget EXCEPT ![pThis] = r.target]
                /\ criticalError' = ~r.ok
                /\ frames' = SetTop(t, [Top(t) EXCEPT !.pc = "guard"])
                /\ UNCHANGED <<typeInfo, vData, isRoot, stdItems, gcPtrRootNodes,
                               gcContainerRootNodes>>
       ELSE /\ frames' = SetTop(t, [Top(t) EXCEPT !.pc = "guard"])
            /\ criticalError' = FALSE
            /\ UNCHANGED <<typeInfo, ptrTarget, vData, isRoot, stdItems, gcPtrRootNodes,
                           gcContainerRootNodes>>
    /\ lastCollect' = NoCollect
    /\ AllocUnchanged
    /\ LockUnchanged
    /\ UNCHANGED <<constructing, vGrayAllocations>>

(***************************************************************************)
(* The constructor returned.  ~GcAllocationConstructionGuard erases the    *)
(* allocation from the array of constructing objects (first match), the    *)
(* type's offsets are declared initialized, initializeFromNewAllocation    *)
(* stores the allocation in `pGcPtr` and unlocks, makeGc returns.          *)
(* A nested call returns into `pInnerFoo = <result>`: GcPtr's move         *)
(* assignment binds the field to the result's object, clears the result,   *)
(* and the temporary result is destroyed.                                  *)
(***************************************************************************)
RECURSIVE indexOf(_, _, _)
indexOf(s, x, i) == IF i > Len(s) THEN 0 ELSE IF s[i] = x THEN i ELSE indexOf(s, x, i + 1)

\* a construction guard that erases the oldest entry of the array
popOldest(stack, pAllocation) ==
    IF stack = <<>> THEN [stack |-> stack, critical |-> TRUE]
    ELSE [stack |-> Tail(stack), critical |-> FALSE]

guardDestructor(stack, pAllocation) ==
    LET i == indexOf(stack, pAllocation, 1)
    IN  IF i = 0 THEN [stack |-> stack, critical |-> TRUE]
        ELSE [stack |-> RemoveAt(stack, i), critical |-> FALSE]

\* GcPtr::operator=(GcPtr&&) for distinct pointers
moveAssign(w, dst, src, infoRefs) ==
    LET r == setAllocationFromUserObject(w.ptrTarget[dst], getUserObject(w.ptrTarget[src]), infoRefs)
    IN  [w EXCEPT !.ptrTarget = [@ EXCEPT ![dst] = r.target, ![src] = NULL],
                  !.errors = IF r.ok THEN @ ELSE @ + 1]

MakeGcFinish(t) ==
    /\ ~Idle(t)
    /\ Top(t).op = "makeGc" /\ Top(t).pc = "guard"
    /\ LET f == Top(t)
           g == guardDestructor(constructing, f.alloc)
           w0 == [NodeWorld EXCEPT
                     !.typeInfo[f.type].bAllGcNodeFieldOffsetsInitialized = TRUE,
                     !.ptrTarget[f.node] = f.alloc]
           w == IF f.dest = NULL THEN w0
                ELSE destroyGcPtr(moveAssign(w0, f.dest, f.node, allocationInfoRefs), f.node)
       IN  /\ constructing' = g.stack
           /\ SetWorld(w)
           /\ criticalError' = (g.critical \/ w.errors > 0)
    /\ gcDepth' = gcDepth - 1
    /\ gcOwner' = IF gcDepth = 1 THEN 0 ELSE gcOwner
    /\ frames' = Pop(t)
    /\ lastCollect' = NoCollect
    /\ AllocUnchanged
    /\ UNCHANGED vGrayAllocations

(***************************************************************************)
(* GcPtr local variables of user code.                                     *)
(***************************************************************************)
\* `sgc::GcPtr<T> p;`
NewVar(t) ==
    /\ Idle(t)
    /\ CanLock(t)
    /\ FreeSlots(t) # {}
    /\ SetWorld(constructGcPtr(NodeWorld, VarAddr(t, MinOf(FreeSlots(t))), TRUE,
                               constructing, allocType))
    /\ lastCollect' = NoCollect
    /\ criticalError' = FALSE
    /\ AllocUnchanged
    /\ LockUnchanged
    /\ UNCHANGED <<constructing, vGrayAllocations, frames>>

\* a pointer whose destruction frees the object it points to
DestroyVarAndFree(t, i) ==
    /\ Idle(t)
    /\ CanLock(t)
    /\ i \in LiveVars(t)
    /\ SetWorld(destroyGcPtr(NodeWorld, VarAddr(t, i)))
    /\ existingAllocations' = existingAllocations \ {ptrTarget[VarAddr(t, i)]}
    /\ criticalError' = FALSE
    /\ lastCollect' = NoCollect
    /\ LockUnchanged
    /\ UNCHANGED <<allocationInfoRefs, allocType, color, constructing, vGrayAllocations, frames>>

\* the variable goes out of scope: ~GcPtr
DestroyVar(t, i) ==
    /\ Idle(t)
    /\ CanLock(t)
    /\ i \in LiveVars(t)
    /\ LET w == destroyGcPtr(NodeWorld, VarAddr(t, i))
       IN  /\ SetWorld(w)
           /\ criticalError' = (w.errors > 0)
    /\ lastCollect' = NoCollect
    /\ AllocUnchanged
    /\ LockUnchanged
    /\ UNCHANGED <<constructing, vGrayAllocations, frames>>

\* `dst = <pointer to src>;` GcPtr::operator=(const GcPtr&): updateInternalPointers(pOther.get())
CopyAssign(t, dst, src) ==
    /\ Idle(t)
    /\ CanLock(t)
    /\ dst \in UserPtrs(t)
    /\ src \in UserObjects(t)
    /\ LET r == setAllocationFromUserObject(ptrTarget[dst], getUserObject(src),
                                            allocationInfoRefs)
       IN  /\ ptrTarget' = [ptrTarget EXCEPT ![dst] = r.target]
           /\ criticalError' = ~r.ok
    /\ lastCollect' = NoCollect
    /\ AllocUnchanged
    /\ LockUnchanged
    /\ UNCHANGED <<typeInfo, vData, isRoot, stdItems, gcPtrRootNodes, gcContainerRootNodes,
                   constructing, vGrayAllocations, frames>>

\* `dst = nullptr;` GcPtr::operator=(Type*) with a null pointer
ResetPtr(t, dst) ==
    /\ Idle(t)
    /\ CanLock(t)
    /\ dst \in UserPtrs(t)
    /\ ptrTarget[dst] # NULL
    /\ ptrTarget' = [ptrTarget EXCEPT ![dst] =
                        setAllocationFromUserObject(@, NULL, allocationInfoRefs).target]
    /\ lastCollect' = NoCollect
    /\ criticalError' = FALSE
    /\ AllocUnchanged
    /\ LockUnchanged
    /\ UNCHANGED <<typeInfo, vData, isRoot, stdItems, gcPtrRootNodes, gcContainerRootNodes,
                   constructing, vGrayAllocations, frames>>

(***************************************************************************)
(* GcVector: a local variable of user code, or the field of a VecFoo.      *)
(***************************************************************************)
\* `sgc::GcVector<sgc::GcPtr<T>> v;`
NewVecVar(t) ==
    /\ Idle(t)
    /\ CanLock(t)
    /\ VecVarAddr(t) \notin DOMAIN vData
    /\ SetWorld(constructGcVector(NodeWorld, VecVarAddr(t), constructing, allocType))
    /\ lastCollect' = NoCollect
    /\ criticalError' = FALSE
    /\ AllocUnchanged
    /\ LockUnchanged
    /\ UNCHANGED <<constructing, vGrayAllocations, frames>>

\* the variable goes out of scope: ~GcVector
DestroyVecVar(t) ==
    /\ Idle(t)
    /\ CanLock(t)
    /\ VecVarAddr(t) \in DOMAIN vData
    /\ LET w == destroyGcVector(NodeWorld, VecVarAddr(t))
       IN  /\ SetWorld(w)
           /\ criticalError' = (w.errors > 0)
    /\ lastCollect' = NoCollect
    /\ AllocUnchanged
    /\ LockUnchanged
    /\ UNCHANGED <<constructing, vGrayAllocations, frames>>

\* `v.push_back(src)`: src is converted to the item type GcPtr<T, false>
\* (a temporary bound to src.get()), push_back copies the temporary into vData.
pushBackItem(items, srcTarget, infoRefs) ==
    LET tmp == setAllocationFromUserObject(NULL, getUserObject(srcTarget), infoRefs)
        item == setAllocationFromUserObject(NULL, getUserObject(tmp.target), infoRefs)
    IN  IF tmp.ok /\ item.ok
        THEN [ok |-> TRUE, items |-> Append(items, item.target)]
        ELSE [ok |-> FALSE, items |-> items]

PushBack(t, v, src) ==
    /\ Idle(t)
    /\ CanLock(t)
    /\ v \in UserVecs(t)
    /\ Len(vData[v]) < MaxVecLen
    /\ src \in UserObjects(t)
    /\ LET r == pushBackItem(vData[v], src, allocationInfoRefs)
           w == constructVecItems(NodeWorld, v, Len(vData[v]) + 1, Len(r.items),
                                  constructing, allocType)
       IN  /\ SetWorld([w EXCEPT !.vData[v] = r.items])
           /\ criticalError' = ~r.ok
    /\ lastCollect' = NoCollect
    /\ AllocUnchanged
    /\ LockUnchanged
    /\ UNCHANGED <<constructing, vGrayAllocations, frames>>

\* `v.clear()`
ClearVec(t, v) ==
    /\ Idle(t)
    /\ CanLock(t)
    /\ v \in UserVecs(t)
    /\ vData[v] # <<>>
    /\ SetWorld([NodeWorld EXCEPT !.vData[v] = <<>>])
    /\ criticalError' = FALSE
    /\ lastCollect' = NoCollect
    /\ AllocUnchanged
    /\ LockUnchanged
    /\ UNCHANGED <<constructing, vGrayAllocations, frames>>

(***************************************************************************)
(* The std::vector<GcPtr<T>> of a StdFoo object: its items are ordinary    *)
(* GcPtr objects constructed in the vector's heap buffer.                  *)
(***************************************************************************)
StdFooObjects(t) == {a \in UserObjects(t) \cap existingAllocations : allocType[a] = "StdFoo"}

\* a push_back whose new item stays out of the collector's root set
StdPushBackNonRoot(t, a, src) ==
    /\ Idle(t)
    /\ CanLock(t)
    /\ a \in StdFooObjects(t)
    /\ Len(stdItems[a]) < MaxVecLen
    /\ src \in UserObjects(t)
    /\ LET node == StdItemAddr(a, Len(stdItems[a]) + 1)
           w1 == constructGcPtr(NodeWorld, node, FALSE, constructing, allocType)
           r == setAllocationFromUserObject(NULL, getUserObject(src), allocationInfoRefs)
       IN  /\ SetWorld([w1 EXCEPT !.ptrTarget[node] = r.target,
                                  !.stdItems[a] = Append(@, node)])
           /\ criticalError' = ~r.ok
    /\ lastCollect' = NoCollect
    /\ AllocUnchanged
    /\ LockUnchanged
    /\ UNCHANGED <<constructing, vGrayAllocations, frames>>

\* `pObject->vStdArray.push_back(src)`: copy constructor of GcPtr
StdPushBack(t, a, src) ==
    /\ Idle(t)
    /\ CanLock(t)
    /\ a \in StdFooObjects(t)
    /\ Len(stdItems[a]) < MaxVecLen
    /\ src \in UserObjects(t)
    /\ LET node == StdItemAddr(a, Len(stdItems[a]) + 1)
           w1 == constructGcPtr(NodeWorld, node, TRUE, constructing, allocType)
           r == setAllocationFromUserObject(NULL, getUserObject(src), allocationInfoRefs)
       IN  /\ SetWorld([w1 EXCEPT !.ptrTarget[node] = r.target,
                                  !.stdItems[a] = Append(@, node)])
           /\ criticalError' = ~r.ok
    /\ lastCollect' = NoCollect
    /\ AllocUnchanged
    /\ LockUnchanged
    /\ UNCHANGED <<constructing, vGrayAllocations, frames>>

\* `pObject->vStdArray.clear()`: the items are destroyed
StdClear(t, a) ==
    /\ Idle(t)
    /\ CanLock(t)
    /\ a \in StdFooObjects(t)
    /\ stdItems[a] # <<>>
    /\ LET w == destroyGcPtrs(NodeWorld, stdItems[a])
       IN  /\ SetWorld([w EXCEPT !.stdItems[a] = <<>>])
           /\ criticalError' = (w.errors > 0)
    /\ lastCollect' = NoCollect
    /\ AllocUnchanged
    /\ LockUnchanged
    /\ UNCHANGED <<constructing, vGrayAllocations, frames>>

(***************************************************************************)
(* GarbageCollector::get().collectGarbage() called by user code.           *)
(***************************************************************************)
\* the collector's data when the call returns
collectOutcome(c) ==
    [color |-> [a \in AllocIds |-> IF a \in c.sweep.existing THEN c.mark.color[a] ELSE "WHITE"],
     allocType |-> [a \in AllocIds |->
                      IF a \in c.sweep.existing \cup Range(constructing)
                      THEN allocType[a] ELSE "none"],
     vGrayAllocations |-> c.mark.gray,
     existingAllocations |-> c.sweep.existing,
     allocationInfoRefs |-> c.sweep.infoRefs,
     world |-> c.sweep.world,
     criticalError |-> (c.mark.critical \/ c.sweep.world.errors > 0),
     lastCollect |-> [called |-> TRUE,
                      valid |-> ~c.mark.critical,
                      returned |-> c.sweep.iDeletedObjectCount,
                      consecutive |-> lastCollect.valid,
                      existingBefore |-> existingAllocations,
                      reachableBefore |-> ReachableFromRoots,
                      ptrRootsBefore |-> gcPtrRootNodes,
                      contRootsBefore |-> gcContainerRootNodes,
                      pendingBefore |-> pendingNodeGraphChanges]]

afterCollect == collectOutcome(collectGarbage)

\* the variables take the values collectGarbage leaves
returnFromCollect(e) ==
    /\ color' = e.color
    /\ allocType' = e.allocType
    /\ vGrayAllocations' = e.vGrayAllocations
    /\ existingAllocations' = e.existingAllocations
    /\ allocationInfoRefs' = e.allocationInfoRefs
    /\ SetWorld(e.world)
    /\ criticalError' = e.criticalError
    /\ lastCollect' = e.lastCollect

CollectGarbage(t) ==
    /\ Idle(t)
    /\ CanLock(t)
    /\ returnFromCollect(afterCollect)
    /\ LockUnchanged
    /\ UNCHANGED <<constructing, frames>>

(***************************************************************************)
(* The program: one thread of user code calling the library.               *)
(***************************************************************************)
UserCode(t) ==
        \/ \E T \in PlainTypes, arg \in 0..MaxDepth : MakeGcBegin(t, T, arg)
        \/ MakeGcAlloc(t)
        \/ MakeGcFields(t)
        \/ MakeGcBody(t)
        \/ MakeGcFinish(t)
        \/ NewVar(t)
        \/ \E i \in 1..MaxSlots : DestroyVar(t, i)
        \/ \E dst \in DOMAIN ptrTarget, src \in AllocIds : CopyAssign(t, dst, src)
        \/ \E dst \in DOMAIN ptrTarget : ResetPtr(t, dst)
        \/ NewVecVar(t)
        \/ DestroyVecVar(t)
        \/ \E v \in DOMAIN vData, src \in AllocIds : PushBack(t, v, src)
        \/ \E v \in DOMAIN vData : ClearVec(t, v)
        \/ \E a \in AllocIds, src \in AllocIds : StdPushBack(t, a, src)
        \/ \E a \in AllocIds : StdClear(t, a)
        \/ CollectGarbage(t)

Next == UserCode(MainThread) /\ UNCHANGED <<task, cancelTask, DEBUG, pendingNodeGraphChanges, lastCall>>

Spec == Init /\ [][Next]_vars

(***************************************************************************)
(* MultithreadingTests.cpp: the thread pool's tasks allocate Foo objects   *)
(* (whose constructors allocate their children) and add them to a local    *)
(* GcVector until they are cancelled, while the main thread has the        *)
(* garbage collected, cancels the tasks and collects once more.            *)
(***************************************************************************)
\* the task starts: `sgc::GcVector<sgc::GcPtr<Foo>> vSomeFoos;`
TaskStart(t) ==
    /\ task[t] = "waiting"
    /\ NewVecVar(t)
    /\ task' = [task EXCEPT ![t] = "running"]
    /\ UNCHANGED <<cancelTask, DEBUG, pendingNodeGraphChanges, lastCall>>

\* `while (!cancelTask.test()) { auto pFoo = sgc::makeGc<Foo>(n);`
TaskMakeGc(t, arg) ==
    /\ task[t] = "running"
    /\ ~cancelTask
    /\ LocalPtrs(t) = {}
    /\ MakeGcBegin(t, "Foo", arg)
    /\ UNCHANGED <<task, cancelTask, DEBUG, pendingNodeGraphChanges, lastCall>>

\* the steps of the makeGc call, nested calls included
TaskConstruct(t) ==
    /\ task[t] = "running"
    /\ MakeGcAlloc(t) \/ MakeGcFields(t) \/ MakeGcBody(t) \/ MakeGcFinish(t)
    /\ UNCHANGED <<task, cancelTask, DEBUG, pendingNodeGraphChanges, lastCall>>

\* `vSomeFoos.push_back(pFoo);`
TaskPushBack(t) ==
    /\ task[t] = "running"
    /\ \E i \in LiveVars(t) : PushBack(t, VecVarAddr(t), ptrTarget[VarAddr(t, i)])
    /\ UNCHANGED <<task, cancelTask, DEBUG, pendingNodeGraphChanges, lastCall>>

\* the end of the loop body: pFoo goes out of scope
TaskDestroyVar(t) ==
    /\ task[t] = "running"
    /\ \E i \in 1..MaxSlots : DestroyVar(t, i)
    /\ UNCHANGED <<task, cancelTask, DEBUG, pendingNodeGraphChanges, lastCall>>

\* the loop was left: `vSomeFoos.clear();`
TaskClear(t) ==
    /\ task[t] = "running"
    /\ cancelTask
    /\ LocalPtrs(t) = {}
    /\ ClearVec(t, VecVarAddr(t))
    /\ UNCHANGED <<task, cancelTask, DEBUG, pendingNodeGraphChanges, lastCall>>

\* the loop was left and the vector cleared: the task returns, ~GcVector
TaskEnd(t) ==
    /\ task[t] = "running"
    /\ cancelTask
    /\ LocalPtrs(t) = {}
    /\ VecVarAddr(t) \in DOMAIN vData
    /\ vData[VecVarAddr(t)] = <<>>
    /\ DestroyVecVar(t)
    /\ task' = [task EXCEPT ![t] = "finished"]
    /\ UNCHANGED <<cancelTask, DEBUG, pendingNodeGraphChanges, lastCall>>

\* the GC task and the final cleanup: collectGarbage()
MainCollect ==
    /\ CollectGarbage(MainThread)
    /\ UNCHANGED <<task, cancelTask, DEBUG, pendingNodeGraphChanges, lastCall>>

\* `cancelTask.test_and_set();`
Cancel ==
    /\ ~cancelTask
    /\ cancelTask' = TRUE
    /\ UNCHANGED <<DEBUG, pendingNodeGraphChanges>>
    /\ UNCHANGED <<existingAllocations, allocationInfoRefs, allocType, color, typeInfo,
                   ptrTarget, vData, isRoot, stdItems, gcPtrRootNodes, gcContainerRootNodes,
                   constructing, vGrayAllocations, gcOwner, gcDepth, frames, lastCollect,
                   criticalError, task, lastCall>>

NextMT ==
    \/ \E t \in Workers :
          \/ TaskStart(t)
          \/ \E arg \in 0..MaxDepth : TaskMakeGc(t, arg)
          \/ TaskConstruct(t)
          \/ TaskPushBack(t)
          \/ TaskDestroyVar(t)
          \/ TaskClear(t)
          \/ TaskEnd(t)
    \/ MainCollect
    \/ Cancel

WorkerStep ==
    \E t \in Workers :
        \/ TaskStart(t)
        \/ \E arg \in 0..MaxDepth : TaskMakeGc(t, arg)
        \/ TaskConstruct(t)
        \/ TaskPushBack(t)
        \/ TaskDestroyVar(t)
        \/ TaskClear(t)
        \/ TaskEnd(t)

\* ENABLED <<MainCollect>>_vars, written out: the main thread can take the
\* mutex and the call changes something
MainCollectEnabled ==
    /\ Idle(MainThread)
    /\ CanLock(MainThread)
    /\ LET e == afterCollect
       IN  \/ e.color # color
           \/ e.allocType # allocType
           \/ e.vGrayAllocations # vGrayAllocations
           \/ e.existingAllocations # existingAllocations
           \/ e.allocationInfoRefs # allocationInfoRefs
           \/ e.world.typeInfo # typeInfo
           \/ e.world.ptrTarget # ptrTarget
           \/ e.world.vData # vData
           \/ e.world.isRoot # isRoot
           \/ e.world.stdItems # stdItems
           \/ e.world.gcPtrRootNodes # gcPtrRootNodes
           \/ e.world.gcContainerRootNodes # gcContainerRootNodes
           \/ e.criticalError # criticalError
           \/ e.lastCollect # lastCollect

\* the pool's threads keep running while they have something to do, the main
\* thread does cancel the tasks, and it keeps calling collectGarbage (weak
\* fairness of MainCollect, with its enabling condition written out)
FairnessMT ==
    /\ WF_vars(WorkerStep)
    /\ WF_vars(Cancel)
    /\ []<>(~MainCollectEnabled) \/ []<><<MainCollect>>_vars

SpecMT == Init /\ [][NextMT]_vars /\ FairnessMT

(***************************************************************************)
(* Properties of collectGarbage.                                           *)
(***************************************************************************)
Freed(target) == target # NULL /\ target \notin existingAllocations
SurvivingFieldPtrs == UNION {FieldNodes(a, "ptr") : a \in existingAllocations} \cap DOMAIN ptrTarget
SurvivingFieldVecs == UNION {FieldNodes(a, "cont") : a \in existingAllocations} \cap DOMAIN vData

\* C1: when collectGarbage has returned, no freed allocation is the target of
\* a root pointer, of an item of a root container, or of a pointer field or
\* container item of a surviving allocation.
C1_NoDanglingReference ==
    lastCollect.valid =>
        /\ \A n \in gcPtrRootNodes \cup SurvivingFieldPtrs : ~Freed(ptrTarget[n])
        /\ \A v \in gcContainerRootNodes \cup SurvivingFieldVecs :
              \A i \in 1..Len(vData[v]) : ~Freed(vData[v][i])

\* a collection freed something and left an allocation that a field of another
\* survivor or a root container refers to
C1_Witness ==
    /\ lastCollect.valid
    /\ lastCollect.returned > 0
    /\ \/ \E n \in SurvivingFieldPtrs : ptrTarget[n] # NULL
       \/ \E v \in gcContainerRootNodes : vData[v] # <<>>

\* C2: when collectGarbage has returned, every allocation still in the
\* allocation set is reachable from the root sets through pointer fields and
\* container items, and every allocation that was unreachable is freed.
C2_SurvivorsReachable ==
    lastCollect.valid =>
        /\ existingAllocations \subseteq ReachableFromRoots
        /\ (lastCollect.existingBefore \ lastCollect.reachableBefore) \cap existingAllocations = {}

\* C5: a collectGarbage that directly follows a collectGarbage returns 0 and
\* leaves the allocation set and both root sets as they were.
C5_SecondCollectFreesNothing ==
    (lastCollect.valid /\ lastCollect.consecutive) =>
        /\ lastCollect.returned = 0
        /\ existingAllocations = lastCollect.existingBefore
        /\ gcPtrRootNodes = lastCollect.ptrRootsBefore
        /\ gcContainerRootNodes = lastCollect.contRootsBefore

\* C6: only collectGarbage removes allocations; a step that destroys, nulls,
\* copies, moves or reassigns pointers or containers leaves the allocation set
\* (and so getAliveAllocationCount) as it was, and an allocating step only adds.
C6_OnlyCollectFrees ==
    [][IF lastCollect'.called THEN TRUE
       ELSE IF Len(constructing') > Len(constructing)
            THEN existingAllocations \subseteq existingAllocations'
            ELSE existingAllocations' = existingAllocations]_vars

\* every root was destroyed without a collection: the allocations are still there
C6_Witness ==
    /\ ~lastCollect.called
    /\ existingAllocations # {}
    /\ gcPtrRootNodes = {} /\ gcContainerRootNodes = {}
    /\ \A t \in Threads : Idle(t)

\* C7: the value collectGarbage returns is the alive allocation count before
\* the call minus the count after it.
C7_ReturnsFreedCount ==
    lastCollect.valid =>
        lastCollect.returned =
            Cardinality(lastCollect.existingBefore) - Cardinality(existingAllocations)

\* a collection freed a whole cycle, or freed one allocation and kept another
C7_Witness ==
    /\ lastCollect.valid
    /\ \/ lastCollect.returned = 2
       \/ lastCollect.returned = 1 /\ existingAllocations # {}

(***************************************************************************)
(* Properties of the multithreaded test.                                   *)
(***************************************************************************)
\* C3: with worker threads running makeGc (nested in constructors too) and
\* push_back while the main thread collects, every allocation reachable from a
\* root when a collection takes the mutex survives it, and no pointer or
\* container item that a thread can read refers to a freed allocation.
C3_ReachableSurviveConcurrently ==
    /\ lastCollect.valid => lastCollect.reachableBefore \subseteq existingAllocations
    /\ \A t \in Threads :
          /\ \A n \in UserPtrs(t) : ~Freed(ptrTarget[n])
          /\ \A v \in UserVecs(t) : \A i \in 1..Len(vData[v]) : ~Freed(vData[v][i])

\* a collection ran between the statements of a worker's makeGc, freed an
\* allocation and kept a reachable one
C3_Witness ==
    /\ lastCollect.valid
    /\ lastCollect.returned > 0
    /\ lastCollect.reachableBefore # {}
    /\ \E t \in Workers : ~Idle(t)

AllTasksFinished == \A t \in Workers : task[t] = "finished"

\* C4: a collection that starts with no root referring to anything frees every
\* allocation; and once all tasks have finished and no root refers to
\* anything, the alive allocation count does become 0.
C4_GarbageEventuallyDies ==
    /\ []((lastCollect.valid /\ lastCollect.reachableBefore = {}) => existingAllocations = {})
    /\ (AllTasksFinished /\ RootTargets = {}) ~> (existingAllocations = {})

\* all tasks have finished, the roots are gone, allocations are still alive
C4_Witness ==
    /\ AllTasksFinished
    /\ RootTargets = {}
    /\ existingAllocations # {}

(***************************************************************************)
(* Properties of makeGc and of the classification of nodes.                *)
(***************************************************************************)
\* C8: when a makeGc call of user code returns, its result is in the set of
\* root pointers and refers to the allocation the call created; and a
\* collectGarbage leaves every pointer variable as it is and does not free
\* the allocation it refers to.
C8_MakeGcResultIsRooted ==
    [][/\ \A t \in Threads :
            (Len(frames[t]) = 1 /\ frames[t][1].pc = "guard" /\ frames'[t] = <<>>) =>
                /\ frames[t][1].node \in gcPtrRootNodes'
                /\ frames[t][1].node \in DOMAIN ptrTarget'
                /\ ptrTarget'[frames[t][1].node] = frames[t][1].alloc
                /\ frames[t][1].alloc \in existingAllocations'
       /\ lastCollect'.called =>
            \A t \in Threads : \A n \in LocalPtrs(t) :
                ptrTarget[n] # NULL =>
                    /\ n \in gcPtrRootNodes'
                    /\ ptrTarget'[n] = ptrTarget[n]
                    /\ ptrTarget[n] \in existingAllocations']_vars

\* a collection freed something while a pointer variable referred to an allocation
C8_Witness ==
    /\ lastCollect.valid
    /\ lastCollect.returned > 0
    /\ \E t \in Threads : \E n \in LocalPtrs(t) : ptrTarget[n] \in existingAllocations

InPayload(node, a) ==
    /\ getAllocatedObject(a) <= node
    /\ node < getAllocatedObject(a) + getTypeSize(allocType[a])

Nodes == DOMAIN ptrTarget \cup DOMAIN vData

\* C9: a GcPtr or GcVector located inside the payload of an allocation (it was
\* constructed there while the allocation was being constructed) is a non-root
\* node and is in neither root set.
C9_FieldNodesAreNotRoots ==
    \A n \in Nodes :
        (\E a \in existingAllocations : InPayload(n, a)) =>
            /\ ~isRoot[n]
            /\ n \notin gcPtrRootNodes
            /\ n \notin gcContainerRootNodes

\* makeGc of an object with a GcVector field: 1 root pointer, no root container
C9_Witness ==
    /\ \E a \in existingAllocations :
          /\ allocType[a] = "VecFoo"
          /\ FieldNodes(a, "cont") \subseteq DOMAIN vData
          /\ a \in {ptrTarget[n] : n \in gcPtrRootNodes}
    /\ Cardinality(gcPtrRootNodes) = 1
    /\ gcContainerRootNodes = {}
    /\ \A t \in Threads : Idle(t)

\* C10: a GcPtr or GcVector located in no allocation's payload is a root node
\* and is in the root set of its kind, and only in that one.
C10_FreeStandingNodesAreRoots ==
    \A n \in Nodes :
        (\A a \in existingAllocations : ~InPayload(n, a)) =>
            /\ isRoot[n]
            /\ n \in DOMAIN ptrTarget => (n \in gcPtrRootNodes /\ n \notin gcContainerRootNodes)
            /\ n \in DOMAIN vData => (n \in gcContainerRootNodes /\ n \notin gcPtrRootNodes)

\* inside a constructor: the result pointer of the nested makeGc is a root,
\* next to a vector variable that is a root container
C10_Witness ==
    /\ constructing # <<>>
    /\ \E t \in Threads : TempAddr(t, 0) \in gcPtrRootNodes
    /\ gcContainerRootNodes # {}

(***************************************************************************)
(* Properties of pointers kept in containers.                              *)
(***************************************************************************)
\* the allocation's std::vector holds a pointer to the allocation itself
HoldsItself(a) == \E n \in Range(stdItems[a]) : ptrTarget[n] = a

\* C11: every GcPtr stored in the std::vector of a managed object is a root
\* node in the root pointer set; a collectGarbage does not free an object
\* whose std::vector holds a pointer to the object itself and leaves that
\* pointer in place; once the vector is empty and no root leads to the
\* object, a collectGarbage frees it.
C11_StdHeldPointerIsRoot ==
    [][/\ \A a \in existingAllocations' : \A n \in Range(stdItems'[a]) :
             isRoot'[n] /\ n \in gcPtrRootNodes'
       /\ lastCollect'.called =>
             \A a \in existingAllocations :
                 /\ HoldsItself(a) =>
                       /\ a \in existingAllocations'
                       /\ stdItems'[a] = stdItems[a]
                       /\ \A n \in Range(stdItems[a]) : ptrTarget'[n] = ptrTarget[n]
                 /\ (lastCollect'.valid /\ stdItems[a] = <<>> /\ a \notin ReachableFromRoots)
                       => a \notin existingAllocations']_vars

\* a collection returned and left an object that nothing but the pointer in
\* its own std::vector refers to
C11_Witness ==
    /\ lastCollect.valid
    /\ \E a \in existingAllocations : HoldsItself(a)
    /\ \A t \in Threads : LocalPtrs(t) = {} /\ LocalVecs(t) = {}

(***************************************************************************)
(* Assignments to a GcPtr made by user code.  Every one of them ends in    *)
(* GcPtr::updateInternalPointers, that is in                               *)
(* GcPtrBase::setAllocationFromUserObject, which takes the mutex for the   *)
(* lookup and the write.                                                   *)
(***************************************************************************)
\* the addresses user code can hold in a `Type*`: nullptr, the payload of a
\* block (of a living allocation, of a freed one, or memory that never was a
\* GC allocation) and the address behind it (a second base class sub-object)
RawAddresses == {NULL} \cup {getAllocatedObject(a) + k : a \in AllocIds, k \in 0..1}

\* the allocations freed by the collectGarbage call that has just returned
JustFreed == IF lastCollect.called THEN lastCollect.existingBefore \ existingAllocations ELSE {}

PtrCall(op, dst, src, raw, ok, dstBefore, srcBefore) ==
    [op |-> op, dst |-> dst, src |-> src, raw |-> raw, ok |-> ok,
     dstBefore |-> dstBefore, srcBefore |-> srcBefore, itemsBefore |-> <<>>,
     freed |-> JustFreed]

\* an assignment from a raw pointer that does not take the mutex
AssignRawUnlocked(t, dst, raw) ==
    /\ Idle(t)
    /\ dst \in UserPtrs(t)
    /\ raw \in RawAddresses
    /\ LET r == setAllocationFromUserObject(ptrTarget[dst], raw, allocationInfoRefs)
       IN  /\ ptrTarget' = [ptrTarget EXCEPT ![dst] = r.target]
           /\ criticalError' = ~r.ok
           /\ lastCall' = PtrCall("raw", dst, NULL, raw, r.ok, ptrTarget[dst], NULL)
    /\ lastCollect' = NoCollect
    /\ AllocUnchanged
    /\ LockUnchanged
    /\ UNCHANGED <<typeInfo, vData, isRoot, stdItems, gcPtrRootNodes, gcContainerRootNodes,
                   constructing, vGrayAllocations, frames, task, cancelTask, DEBUG, pendingNodeGraphChanges>>

\* `dst = pRaw;` GcPtr::operator=(Type*)
AssignRaw(t, dst, raw) ==
    /\ Idle(t)
    /\ CanLock(t)
    /\ dst \in UserPtrs(t)
    /\ raw \in RawAddresses
    /\ LET r == setAllocationFromUserObject(ptrTarget[dst], raw, allocationInfoRefs)
       IN  /\ ptrTarget' = [ptrTarget EXCEPT ![dst] = r.target]
           /\ criticalError' = ~r.ok
           /\ lastCall' = PtrCall("raw", dst, NULL, raw, r.ok, ptrTarget[dst], NULL)
    /\ lastCollect' = NoCollect
    /\ AllocUnchanged
    /\ LockUnchanged
    /\ UNCHANGED <<typeInfo, vData, isRoot, stdItems, gcPtrRootNodes, gcContainerRootNodes,
                   constructing, vGrayAllocations, frames, task, cancelTask, DEBUG, pendingNodeGraphChanges>>

\* `dst = src;` GcPtr::operator=(const GcPtr&): updateInternalPointers(src.get()),
\* also when dst and src are the same object
AssignPtr(t, dst, src) ==
    /\ Idle(t)
    /\ CanLock(t)
    /\ dst \in UserPtrs(t)
    /\ src \in UserPtrs(t)
    /\ LET raw == getUserObject(ptrTarget[src])
           r == setAllocationFromUserObject(ptrTarget[dst], raw, allocationInfoRefs)
       IN  /\ ptrTarget' = [ptrTarget EXCEPT ![dst] = r.target]
           /\ criticalError' = ~r.ok
           /\ lastCall' = PtrCall("copy", dst, src, raw, r.ok, ptrTarget[dst], ptrTarget[src])
    /\ lastCollect' = NoCollect
    /\ AllocUnchanged
    /\ LockUnchanged
    /\ UNCHANGED <<typeInfo, vData, isRoot, stdItems, gcPtrRootNodes, gcContainerRootNodes,
                   constructing, vGrayAllocations, frames, task, cancelTask, DEBUG, pendingNodeGraphChanges>>

(***************************************************************************)
(* `dst = std::move(src);` GcPtr::operator=(GcPtr&&).  Moving an object    *)
(* into itself returns at once.  Otherwise the operator makes two calls    *)
(* that take the mutex one after the other:                                *)
(* updateInternalPointers(src.get()), then src.updateInternalPointers      *)
(* (nullptr).  The operator is noexcept: a failing lookup ends the program *)
(* (ok = FALSE).                                                           *)
(***************************************************************************)
\* a move assignment without the comparison of `this` with the source
moveIntoItself(dst, src) == FALSE

\* `if (this == &pOther) return *this;`
isSelfAssignment(dst, src) == dst = src

\* a move assignment that leaves the source as it is
MoveAssignKeepSource(t) ==
    /\ ~Idle(t)
    /\ Top(t).op = "move" /\ Top(t).pc = "clear"
    /\ CanLock(t)
    /\ lastCall' = PtrCall("move", Top(t).dest, Top(t).node, getUserObject(Top(t).alloc), TRUE,
                           Top(t).arg, Top(t).alloc)
    /\ frames' = Pop(t)
    /\ lastCollect' = NoCollect
    /\ criticalError' = FALSE
    /\ AllocUnchanged
    /\ LockUnchanged
    /\ UNCHANGED <<ptrTarget, typeInfo, vData, isRoot, stdItems, gcPtrRootNodes,
                   gcContainerRootNodes, constructing, vGrayAllocations, task, cancelTask, DEBUG, pendingNodeGraphChanges>>

MoveAssignBegin(t, dst, src) ==
    /\ Idle(t)
    /\ CanLock(t)
    /\ dst \in UserPtrs(t)
    /\ src \in UserPtrs(t)
    /\ IF isSelfAssignment(dst, src)
       THEN /\ lastCall' = PtrCall("move", dst, src, getUserObject(ptrTarget[src]), TRUE,
                                   ptrTarget[dst], ptrTarget[src])
            /\ criticalError' = FALSE
            /\ UNCHANGED <<ptrTarget, frames>>
       ELSE LET raw == getUserObject(ptrTarget[src])
                r == setAllocationFromUserObject(ptrTarget[dst], raw, allocationInfoRefs)
            IN  /\ ptrTarget' = [ptrTarget EXCEPT ![dst] = r.target]
                /\ criticalError' = ~r.ok
                /\ IF r.ok
                   THEN /\ frames' = [frames EXCEPT ![t] = Append(@,
                               [op |-> "move", pc |-> "clear", type |-> "none",
                                arg |-> ptrTarget[dst], node |-> src,
                                alloc |-> ptrTarget[src], dest |-> dst])]
                        /\ lastCall' = NoCall
                   ELSE /\ frames' = frames
                        /\ lastCall' = PtrCall("move", dst, src, raw, FALSE,
                                               ptrTarget[dst], ptrTarget[src])
    /\ lastCollect' = NoCollect
    /\ AllocUnchanged
    /\ LockUnchanged
    /\ UNCHANGED <<typeInfo, vData, isRoot, stdItems, gcPtrRootNodes, gcContainerRootNodes,
                   constructing, vGrayAllocations, task, cancelTask, DEBUG, pendingNodeGraphChanges>>

\* `pOther.updateInternalPointers(nullptr);` and the return.  When a collection
\* on another thread has destroyed the source in the meantime (it was a field
\* of an object that only `dst` kept alive) pOther is a dangling reference and
\* the write goes to freed memory: no node changes, or the thread does not get
\* here at all.
MoveAssignEnd(t) ==
    /\ ~Idle(t)
    /\ Top(t).op = "move" /\ Top(t).pc = "clear"
    /\ CanLock(t)
    /\ IF Top(t).node \in DOMAIN ptrTarget
       THEN ptrTarget' = [ptrTarget EXCEPT ![Top(t).node] =
                             setAllocationFromUserObject(@, NULL, allocationInfoRefs).target]
       ELSE ptrTarget' = ptrTarget
    /\ lastCall' = PtrCall("move", Top(t).dest, Top(t).node, getUserObject(Top(t).alloc), TRUE,
                           Top(t).arg, Top(t).alloc)
    /\ frames' = Pop(t)
    /\ lastCollect' = NoCollect
    /\ criticalError' = FALSE
    /\ AllocUnchanged
    /\ LockUnchanged
    /\ UNCHANGED <<typeInfo, vData, isRoot, stdItems, gcPtrRootNodes, gcContainerRootNodes,
                   constructing, vGrayAllocations, task, cancelTask, DEBUG, pendingNodeGraphChanges>>

(***************************************************************************)
(* A GcPtr constructed from a raw pointer or from an rvalue GcPtr, as a    *)
(* variable of a block of user code: `{ GcPtr<T> d(pRaw); }` and           *)
(* `{ GcPtr<T> d(std::move(s)); }`.  Both constructors run                 *)
(* GcPtrBase(bCanBeRootNode) first.  When the binding throws, the          *)
(* constructor is left by the exception and the GcPtrBase part is          *)
(* destroyed.  The move constructor is `*this = std::move(pOther);`.       *)
(***************************************************************************)
ScopeVar(t) == TempAddr(t, 0)

ScopeFrame(d) == [op |-> "scope", pc |-> "end", type |-> "none", arg |-> 0,
                  node |-> d, alloc |-> NULL, dest |-> NULL]

\* a constructor from a raw pointer whose GcPtrBase part stays registered when
\* the binding throws
ConstructFromRawKeepsRoot(t, raw) ==
    /\ Idle(t)
    /\ CanLock(t)
    /\ raw \in RawAddresses
    /\ LET d == ScopeVar(t)
           w1 == constructGcPtr(NodeWorld, d, TRUE, constructing, allocType)
           r == setAllocationFromUserObject(w1.ptrTarget[d], raw, allocationInfoRefs)
           w2 == IF r.ok THEN [w1 EXCEPT !.ptrTarget[d] = r.target] ELSE w1
       IN  /\ SetWorld(w2)
           /\ criticalError' = (~r.ok \/ w2.errors > 0)
           /\ frames' = IF r.ok THEN [frames EXCEPT ![t] = Append(@, ScopeFrame(d))] ELSE frames
           /\ lastCall' = PtrCall("rawctor", d, NULL, raw, r.ok, NULL, NULL)
    /\ lastCollect' = NoCollect
    /\ AllocUnchanged
    /\ LockUnchanged
    /\ UNCHANGED <<constructing, vGrayAllocations, task, cancelTask, DEBUG, pendingNodeGraphChanges>>

ConstructFromRaw(t, raw) ==
    /\ Idle(t)
    /\ CanLock(t)
    /\ raw \in RawAddresses
    /\ LET d == ScopeVar(t)
           w1 == constructGcPtr(NodeWorld, d, TRUE, constructing, allocType)
           r == setAllocationFromUserObject(w1.ptrTarget[d], raw, allocationInfoRefs)
           w2 == IF r.ok THEN [w1 EXCEPT !.ptrTarget[d] = r.target] ELSE destroyGcPtr(w1, d)
       IN  /\ SetWorld(w2)
           /\ criticalError' = (~r.ok \/ w2.errors > 0)
           /\ frames' = IF r.ok THEN [frames EXCEPT ![t] = Append(@, ScopeFrame(d))] ELSE frames
           /\ lastCall' = PtrCall("rawctor", d, NULL, raw, r.ok, NULL, NULL)
    /\ lastCollect' = NoCollect
    /\ AllocUnchanged
    /\ LockUnchanged
    /\ UNCHANGED <<constructing, vGrayAllocations, task, cancelTask, DEBUG, pendingNodeGraphChanges>>

MoveConstruct(t, src) ==
    /\ Idle(t)
    /\ CanLock(t)
    /\ src \in UserPtrs(t)
    /\ LET d == ScopeVar(t)
           w1 == constructGcPtr(NodeWorld, d, TRUE, constructing, allocType)
           w2 == moveAssign(w1, d, src, allocationInfoRefs)
       IN  /\ SetWorld(w2)
           /\ criticalError' = (w2.errors > 0)
           /\ frames' = [frames EXCEPT ![t] = Append(@, ScopeFrame(d))]
           /\ lastCall' = PtrCall("movector", d, src, getUserObject(ptrTarget[src]),
                                  w2.errors = 0, NULL, ptrTarget[src])
    /\ lastCollect' = NoCollect
    /\ AllocUnchanged
    /\ LockUnchanged
    /\ UNCHANGED <<constructing, vGrayAllocations, task, cancelTask, DEBUG, pendingNodeGraphChanges>>

\* the closing brace: ~GcPtr of the block's variable
EndScope(t) ==
    /\ ~Idle(t)
    /\ Top(t).op = "scope"
    /\ CanLock(t)
    /\ LET w == destroyGcPtr(NodeWorld, Top(t).node)
       IN  /\ SetWorld(w)
           /\ criticalError' = (w.errors > 0)
    /\ frames' = Pop(t)
    /\ lastCall' = NoCall
    /\ lastCollect' = NoCollect
    /\ AllocUnchanged
    /\ LockUnchanged
    /\ UNCHANGED <<constructing, vGrayAllocations, task, cancelTask, DEBUG, pendingNodeGraphChanges>>

(***************************************************************************)
(* A program of one thread that allocates Foo and ThisFoo objects and      *)
(* assigns to the pointers it can name: from raw pointers, from other      *)
(* pointers by copy and by move, from themselves.                          *)
(***************************************************************************)
PtrTypes == {"Foo", "ThisFoo"}

PtrLibrary(t) ==
        \/ \E T \in PtrTypes : MakeGcBegin(t, T, 0)
        \/ MakeGcAlloc(t)
        \/ MakeGcFields(t)
        \/ MakeGcBody(t)
        \/ MakeGcFinish(t)
        \/ NewVar(t)
        \/ \E i \in 1..MaxSlots : DestroyVar(t, i)
        \/ CollectGarbage(t)

PtrUserCode(t) ==
        \/ \E dst \in DOMAIN ptrTarget, raw \in RawAddresses : AssignRaw(t, dst, raw)
        \/ \E dst \in DOMAIN ptrTarget, src \in DOMAIN ptrTarget : AssignPtr(t, dst, src)
        \/ \E dst \in DOMAIN ptrTarget, src \in DOMAIN ptrTarget : MoveAssignBegin(t, dst, src)
        \/ MoveAssignEnd(t)
        \/ \E raw \in RawAddresses : ConstructFromRaw(t, raw)
        \/ \E src \in DOMAIN ptrTarget : MoveConstruct(t, src)
        \/ EndScope(t)

NextPtr ==
        \/ PtrLibrary(MainThread) /\ lastCall' = NoCall /\ UNCHANGED <<task, cancelTask, DEBUG, pendingNodeGraphChanges>>
        \/ PtrUserCode(MainThread)

SpecPtr == Init /\ [][NextPtr]_vars

(***************************************************************************)
(* GcVector members that change the items: every one of them locks the     *)
(* mutex and forwards to the std::vector<vec_item_t> vData, which          *)
(* constructs its items as GcPtr<T, false>.                                *)
(***************************************************************************)
\* the places of the items in the buffer of the GcVector at `node`
VecItemNodes(node) == {GcVecItemAddr(node, i) : i \in 1..MaxItems}

VecCall(op, dst, src, ok, itemsBefore) ==
    [op |-> op, dst |-> dst, src |-> src, raw |-> NULL, ok |-> ok,
     dstBefore |-> NULL, srcBefore |-> NULL, itemsBefore |-> itemsBefore, freed |-> JustFreed]

\* the copy constructor of GcPtr applied to each item: updateInternalPointers(pOther.get())
copyItems(items, infoRefs) ==
    LET r == [i \in 1..Len(items) |->
                 setAllocationFromUserObject(NULL, getUserObject(items[i]), infoRefs)]
    IN  [ok |-> \A i \in 1..Len(items) : r[i].ok,
         items |-> [i \in 1..Len(items) |-> r[i].target]]

\* a move that copies: the source keeps its items
moveKeepingSource(w, dst, src, infoRefs, stack, types) ==
    [constructVecItems(w, dst, 1, Len(w.vData[src]), stack, types)
        EXCEPT !.vData[dst] = w.vData[src]]

\* `vData = vOther.vData;` the items of the destination are new objects, each
\* bound to the target of the source's item; nothing changes when a binding throws
copyVector(w, dst, src, infoRefs, stack, types) ==
    LET c == copyItems(w.vData[src], infoRefs)
    IN  IF ~c.ok THEN [w EXCEPT !.errors = @ + 1]
        ELSE [constructVecItems(w, dst, 1, Len(c.items), stack, types)
                 EXCEPT !.vData[dst] = c.items]

\* `vData = std::move(vOther.vData);` the destination takes the buffer of the
\* source with the items in it (they are the same objects as before, with the
\* root flags they had), the source is left without a buffer
moveVector(w, dst, src, infoRefs, stack, types) ==
    LET n == Len(w.vData[src])
        moved == {GcVecItemAddr(dst, i) : i \in 1..n}
        from(x) == GcVecItemAddr(src, x - GcVecItemAddr(dst, 0))
    IN  [w EXCEPT !.vData = [@ EXCEPT ![dst] = w.vData[src], ![src] = <<>>],
                  !.isRoot = [x \in (DOMAIN @ \ VecItemNodes(dst)) \cup moved |->
                                 IF x \in moved THEN w.isRoot[from(x)] ELSE w.isRoot[x]],
                  !.gcPtrRootNodes = (@ \ VecItemNodes(dst)) \cup
                                     {x \in moved : from(x) \in w.gcPtrRootNodes}]

\* `dst = src;` and `dst = std::move(src);` for two GcVector objects
VecAssign(t, dst, src, bMove) ==
    /\ Idle(t)
    /\ CanLock(t)
    /\ dst \in UserVecs(t)
    /\ src \in UserVecs(t)
    /\ dst # src
    /\ LET w == IF bMove
                THEN moveVector(NodeWorld, dst, src, allocationInfoRefs, constructing, allocType)
                ELSE copyVector(NodeWorld, dst, src, allocationInfoRefs, constructing, allocType)
       IN  /\ SetWorld(w)
           /\ criticalError' = (w.errors > 0)
           /\ lastCall' = VecCall(IF bMove THEN "vmove" ELSE "vcopy", dst, src,
                                  w.errors = 0, vData[src])
    /\ lastCollect' = NoCollect
    /\ AllocUnchanged
    /\ LockUnchanged
    /\ UNCHANGED <<constructing, vGrayAllocations, frames, task, cancelTask, DEBUG, pendingNodeGraphChanges>>

\* `GcVector<GcPtr<T>> v(src);` and `GcVector<GcPtr<T>> v(std::move(src));`:
\* GcContainerBase's constructor first, then the assignment of vData
VecConstruct(t, src, bMove) ==
    /\ Idle(t)
    /\ CanLock(t)
    /\ VecVarAddr(t) \notin DOMAIN vData
    /\ src \in UserVecs(t)
    /\ LET dst == VecVarAddr(t)
           w1 == constructGcVector(NodeWorld, dst, constructing, allocType)
           w == IF bMove
                THEN moveVector(w1, dst, src, allocationInfoRefs, constructing, allocType)
                ELSE copyVector(w1, dst, src, allocationInfoRefs, constructing, allocType)
       IN  /\ SetWorld(w)
           /\ criticalError' = (w.errors > 0)
           /\ lastCall' = VecCall(IF bMove THEN "vmove" ELSE "vcopy", dst, src,
                                  w.errors = 0, vData[src])
    /\ lastCollect' = NoCollect
    /\ AllocUnchanged
    /\ LockUnchanged
    /\ UNCHANGED <<constructing, vGrayAllocations, frames, task, cancelTask, DEBUG, pendingNodeGraphChanges>>

\* `v.resize(iCount)`: new items are value-initialised (GcPtr(), null), items
\* behind iCount are destroyed
Resize(t, v, iCount) ==
    /\ Idle(t)
    /\ CanLock(t)
    /\ v \in UserVecs(t)
    /\ iCount \in 0..MaxVecLen
    /\ iCount # Len(vData[v])
    /\ LET w == constructVecItems(NodeWorld, v, Len(vData[v]) + 1, iCount,
                                  constructing, allocType)
       IN  SetWorld([w EXCEPT !.vData[v] =
                        [i \in 1..iCount |-> IF i <= Len(vData[v]) THEN vData[v][i] ELSE NULL]])
    /\ criticalError' = FALSE
    /\ lastCall' = NoCall
    /\ lastCollect' = NoCollect
    /\ AllocUnchanged
    /\ LockUnchanged
    /\ UNCHANGED <<constructing, vGrayAllocations, frames, task, cancelTask, DEBUG, pendingNodeGraphChanges>>

\* `v.insert(v.begin() + (pos - 1), src)` before an item of v: src is converted
\* to a temporary vec_item_t, the items from pos on move up by one place, the
\* last of them into a newly constructed item
Insert(t, v, pos, src) ==
    /\ Idle(t)
    /\ CanLock(t)
    /\ v \in UserVecs(t)
    /\ Len(vData[v]) < MaxItems
    /\ pos \in 1..Len(vData[v])
    /\ src \in UserObjects(t)
    /\ LET r == pushBackItem(<<>>, src, allocationInfoRefs)
           w == constructVecItems(NodeWorld, v, Len(vData[v]) + 1, Len(vData[v]) + Len(r.items),
                                  constructing, allocType)
       IN  /\ SetWorld([w EXCEPT !.vData[v] =
                           SubSeq(vData[v], 1, pos - 1) \o r.items
                               \o SubSeq(vData[v], pos, Len(vData[v]))])
           /\ criticalError' = ~r.ok
    /\ lastCall' = NoCall
    /\ lastCollect' = NoCollect
    /\ AllocUnchanged
    /\ LockUnchanged
    /\ UNCHANGED <<constructing, vGrayAllocations, frames, task, cancelTask, DEBUG, pendingNodeGraphChanges>>

\* `v.emplace_back(src)`: the item is constructed in place from src
EmplaceBack(t, v, src) ==
    /\ Idle(t)
    /\ CanLock(t)
    /\ v \in UserVecs(t)
    /\ Len(vData[v]) < MaxVecLen
    /\ src \in UserObjects(t)
    /\ LET r == setAllocationFromUserObject(NULL, getUserObject(src), allocationInfoRefs)
           w == constructVecItems(NodeWorld, v, Len(vData[v]) + 1,
                                  IF r.ok THEN Len(vData[v]) + 1 ELSE Len(vData[v]),
                                  constructing, allocType)
       IN  /\ SetWorld([w EXCEPT !.vData[v] = IF r.ok THEN Append(@, r.target) ELSE @])
           /\ criticalError' = ~r.ok
    /\ lastCall' = NoCall
    /\ lastCollect' = NoCollect
    /\ AllocUnchanged
    /\ LockUnchanged
    /\ UNCHANGED <<constructing, vGrayAllocations, frames, task, cancelTask, DEBUG, pendingNodeGraphChanges>>

(***************************************************************************)
(* A program of one thread that allocates VecFoo objects, fills GcVectors  *)
(* (a local variable, the field of a VecFoo) and copies and moves them.    *)
(***************************************************************************)
VecTypes == {"VecFoo"}

VecLibrary(t) ==
        \/ \E T \in VecTypes : MakeGcBegin(t, T, 0)
        \/ MakeGcAlloc(t)
        \/ MakeGcFields(t)
        \/ MakeGcBody(t)
        \/ MakeGcFinish(t)
        \/ \E i \in 1..MaxSlots : DestroyVar(t, i)
        \/ DestroyVecVar(t)
        \/ \E v \in DOMAIN vData, src \in AllocIds : PushBack(t, v, src)
        \/ CollectGarbage(t)

VecUserCode(t) ==
        \/ \E dst \in DOMAIN vData, src \in DOMAIN vData, bMove \in BOOLEAN :
              VecAssign(t, dst, src, bMove)
        \/ \E src \in DOMAIN vData, bMove \in BOOLEAN : VecConstruct(t, src, bMove)
        \/ \E v \in DOMAIN vData, iCount \in 0..MaxVecLen : Resize(t, v, iCount)
        \/ \E v \in DOMAIN vData, pos \in 1..MaxItems, src \in AllocIds : Insert(t, v, pos, src)
        \/ \E v \in DOMAIN vData, src \in AllocIds : EmplaceBack(t, v, src)

NextVec ==
        \/ VecLibrary(MainThread) /\ lastCall' = NoCall /\ UNCHANGED <<task, cancelTask, DEBUG, pendingNodeGraphChanges>>
        \/ VecUserCode(MainThread)

SpecVec == Init /\ [][NextVec]_vars

(***************************************************************************)
(* collectGarbage on a thread of its own, in two steps: the call takes the *)
(* mutex, resets the colors and runs the mark phase; then it sweeps with   *)
(* the colors of the mark phase, and returns, which releases the mutex.    *)
(* Between the two steps the steps of other threads interleave.            *)
(***************************************************************************)
CollectorThread == MainThread + 1

\* the thread is between the two steps of its collectGarbage call
BetweenMarkAndSweep(t) == ~Idle(t) /\ Top(t).op = "collect"

\* the sweep is about to delete an object that holds GcPtr or GcVector
\* nodes: their destructors lock the mutex (onGcPtrBeingDestroyed,
\* notifyGarbageCollectorAboutDestruction, onGcRootNodeBeingDestroyed)
SweepRunsNodeDestructors ==
    \E a \in existingAllocations :
        color[a] = "WHITE" /\ PtrNodesOf(a) \cup VecNodesOf(a) # {}

CollectMark(t) ==
    /\ Idle(t)
    /\ CanLock(t)
    /\ LET m == markPhase(existingAllocations, vGrayAllocations, allocType, NodeWorld)
       IN  /\ color' = m.color
           /\ vGrayAllocations' = m.gray
           /\ criticalError' = m.critical
           /\ frames' = [frames EXCEPT ![t] = Append(@,
                  [op |-> "collect", pc |-> IF m.critical THEN "throw" ELSE "sweep",
                   type |-> "none", arg |-> IF lastCollect.valid THEN 1 ELSE 0,
                   node |-> NULL, alloc |-> NULL, dest |-> NULL])]
    /\ gcOwner' = t
    /\ gcDepth' = gcDepth + 1
    /\ lastCollect' = NoCollect
    /\ lastCall' = NoCall
    /\ UNCHANGED <<existingAllocations, allocationInfoRefs, allocType, typeInfo, ptrTarget,
                   vData, isRoot, stdItems, gcPtrRootNodes, gcContainerRootNodes,
                   constructing, task, cancelTask, DEBUG, pendingNodeGraphChanges>>

CollectSweep(t) ==
    /\ BetweenMarkAndSweep(t)
    /\ (Top(t).pc = "sweep" /\ SweepRunsNodeDestructors) => CanLock(t)
    /\ LET s0 == [existing |-> existingAllocations, infoRefs |-> allocationInfoRefs,
                  world |-> NodeWorld, warnings |-> 0, iDeletedObjectCount |-> 0]
           s == IF Top(t).pc = "throw" THEN s0
                ELSE sweepPhase(s0, SetToSeq(existingAllocations), color, allocType)
       IN  /\ color' = [a \in AllocIds |-> IF a \in s.existing THEN color[a] ELSE "WHITE"]
           /\ allocType' = [a \in AllocIds |->
                               IF a \in s.existing \cup Range(constructing)
                               THEN allocType[a] ELSE "none"]
           /\ existingAllocations' = s.existing
           /\ allocationInfoRefs' = s.infoRefs
           /\ SetWorld(s.world)
           /\ criticalError' = (Top(t).pc = "throw" \/ s.world.errors > 0)
           /\ lastCollect' = [called |-> TRUE,
                              valid |-> Top(t).pc # "throw",
                              returned |-> s.iDeletedObjectCount,
                              consecutive |-> Top(t).arg = 1,
                              existingBefore |-> existingAllocations,
                              reachableBefore |-> ReachableFromRoots,
                              ptrRootsBefore |-> gcPtrRootNodes,
                              contRootsBefore |-> gcContainerRootNodes,
                              pendingBefore |-> pendingNodeGraphChanges]
    /\ frames' = Pop(t)
    /\ gcDepth' = gcDepth - 1
    /\ gcOwner' = IF gcDepth = 1 THEN 0 ELSE gcOwner
    /\ lastCall' = NoCall
    /\ UNCHANGED <<vGrayAllocations, constructing, task, cancelTask, DEBUG, pendingNodeGraphChanges>>

(***************************************************************************)
(* A program of two threads: one allocates Foo objects and assigns to the  *)
(* pointers it can name, the other calls collectGarbage.                   *)
(***************************************************************************)
LockLibrary(t) ==
        \/ MakeGcBegin(t, "Foo", 0)
        \/ MakeGcAlloc(t)
        \/ MakeGcFields(t)
        \/ MakeGcBody(t)
        \/ MakeGcFinish(t)
        \/ \E i \in 1..MaxSlots : DestroyVar(t, i)

LockUserCode(t) ==
        \/ \E dst \in DOMAIN ptrTarget, raw \in RawAddresses : AssignRaw(t, dst, raw)
        \/ \E dst \in DOMAIN ptrTarget, src \in DOMAIN ptrTarget : AssignPtr(t, dst, src)
        \/ \E dst \in DOMAIN ptrTarget, src \in DOMAIN ptrTarget : MoveAssignBegin(t, dst, src)
        \/ MoveAssignEnd(t)

NextLock ==
        \/ LockLibrary(MainThread) /\ lastCall' = NoCall /\ UNCHANGED <<task, cancelTask, DEBUG, pendingNodeGraphChanges>>
        \/ LockUserCode(MainThread)
        \/ CollectMark(CollectorThread)
        \/ CollectSweep(CollectorThread)

SpecLock == Init /\ [][NextLock]_vars

(***************************************************************************)
(* Properties of the assignments to a GcPtr.                               *)
(***************************************************************************)
\* the call constructed a GcPtr from a raw pointer, or assigned one to it
BoundFromRaw == lastCall.op \in {"raw", "rawctor"}

\* a non-null address whose info address is not a key of allocationInfoRefs
UnknownAddress(raw) ==
    raw # NULL /\ (raw < InfoSize \/ (raw - InfoSize) \notin DOMAIN allocationInfoRefs)

\* C13: constructing or assigning a GcPtr from a non-null raw address whose
\* info address is not in allocationInfoRefs sets the critical error and the
\* call throws; an assigned pointer keeps the target it had, a pointer that was
\* being constructed does not come to exist.
C13_UnknownAddressIsCriticalError ==
    (BoundFromRaw /\ UnknownAddress(lastCall.raw)) =>
        /\ ~lastCall.ok
        /\ criticalError
        /\ IF lastCall.op = "raw"
           THEN ptrTarget[lastCall.dst] = lastCall.dstBefore
           ELSE lastCall.dst \notin DOMAIN ptrTarget

\* a pointer to a living object was assigned the address of the object's
\* second base class sub-object, and still points to the object
C13_Witness ==
    /\ lastCall.op = "raw"
    /\ \E a \in existingAllocations :
          /\ lastCall.raw = getAllocatedObject(a) + 1
          /\ lastCall.dstBefore = a
          /\ ptrTarget[lastCall.dst] = a
    /\ ~lastCall.ok
    /\ criticalError

\* C14: when collectGarbage has just freed an allocation, constructing or
\* assigning a GcPtr from the payload address that allocation had sets the
\* critical error, the call throws, and the pointer does not point to a freed
\* allocation afterwards.
C14_FreedAddressIsCriticalError ==
    (BoundFromRaw /\ \E a \in lastCall.freed : lastCall.raw = getAllocatedObject(a)) =>
        /\ ~lastCall.ok
        /\ criticalError
        /\ lastCall.dst \in DOMAIN ptrTarget => ptrTarget[lastCall.dst] \notin lastCall.freed
        /\ lastCall.op = "raw" => ptrTarget[lastCall.dst] = lastCall.dstBefore

\* the collection freed two objects, the pointer was then assigned the address
\* of one of them
C14_Witness ==
    /\ lastCall.op = "raw"
    /\ Cardinality(lastCall.freed) = MaxAllocs
    /\ \E a \in lastCall.freed : lastCall.raw = getAllocatedObject(a)
    /\ ~lastCall.ok

\* C15: a GcPtr constructed or assigned from the address p.get() of a GcPtr p
\* whose target is a living allocation points to that allocation, the call
\* returns and sets no critical error (p may be the assigned pointer itself).
C15_BindFromGetKeepsTarget ==
    BoundFromRaw =>
        \A a \in existingAllocations :
            (/\ lastCall.raw = getUserObject(a)
             /\ \/ lastCall.dstBefore = a
                \/ \E p \in DOMAIN ptrTarget \ {lastCall.dst} : ptrTarget[p] = a) =>
                    /\ lastCall.ok
                    /\ ~criticalError
                    /\ lastCall.dst \in DOMAIN ptrTarget
                    /\ ptrTarget[lastCall.dst] = a

\* `GcPtr<T> d(p.get());` for a local variable p with a target
C15_Witness ==
    /\ lastCall.op = "rawctor"
    /\ lastCall.ok
    /\ \E p \in LocalPtrs(MainThread) :
          /\ ptrTarget[p] \in existingAllocations
          /\ lastCall.raw = getUserObject(ptrTarget[p])
          /\ ptrTarget[lastCall.dst] = ptrTarget[p]

\* the call moved a GcPtr into another object than itself
MovedFromOther == lastCall.op \in {"move", "movector"} /\ lastCall.dst # lastCall.src

\* C16: after `d = std::move(s)` or `GcPtr<T> d(std::move(s))` with d and s
\* distinct objects, d points to what s pointed to and s points to nothing.
C16_MoveTransfersTarget ==
    MovedFromOther =>
        /\ lastCall.ok
        /\ ptrTarget[lastCall.dst] = lastCall.srcBefore
        /\ ptrTarget[lastCall.src] = NULL

\* `p->pInnerFoo = std::move(p);`: the field was null, the variable was not
C16_Witness ==
    /\ lastCall.op = "move"
    /\ lastCall.dst # lastCall.src
    /\ lastCall.srcBefore # NULL
    /\ lastCall.dstBefore = NULL
    /\ ptrTarget[lastCall.dst] = lastCall.srcBefore

\* C18: `p = p;` and `p = std::move(p);` return, set no critical error and
\* leave the target of p as it was.
C18_SelfAssignmentKeepsTarget ==
    (lastCall.op \in {"copy", "move"} /\ lastCall.dst = lastCall.src) =>
        /\ lastCall.ok
        /\ ~criticalError
        /\ ptrTarget[lastCall.dst] = lastCall.dstBefore

\* a pointer with a target was moved into itself
C18_Witness ==
    /\ lastCall.op = "move"
    /\ lastCall.dst = lastCall.src
    /\ lastCall.dstBefore # NULL
    /\ ptrTarget[lastCall.dst] = lastCall.dstBefore

(***************************************************************************)
(* Properties of GcVector.                                                 *)
(***************************************************************************)
\* the items that the GcVectors hold at the moment
LiveVecItems == UNION {{GcVecItemAddr(v, i) : i \in 1..Len(vData[v])} : v \in DOMAIN vData}

\* C12: every item of a GcVector was constructed with bCanBeRootNode = false,
\* is not marked as a root node and is in neither root set, whether push_back,
\* insert, emplace_back, resize, or the copy or move of a vector created it.
C12_VectorItemsAreNeverRoots ==
    /\ \A n \in LiveVecItems :
          /\ n \in DOMAIN isRoot
          /\ ~isRoot[n]
          /\ n \notin gcPtrRootNodes
          /\ n \notin gcContainerRootNodes
    /\ \A n \in gcPtrRootNodes : ~IsVecItem(n)

\* a root vector (a local variable) received two items by a copy or a move
\* while no GcPtr variable exists: the root set of pointers is empty
C12_Witness ==
    /\ lastCall.op \in {"vcopy", "vmove"}
    /\ lastCall.dst \in gcContainerRootNodes
    /\ Len(vData[lastCall.dst]) = MaxItems
    /\ gcPtrRootNodes = {}

\* C17: after `d = std::move(s)` or `GcVector d(std::move(s))` the source still
\* exists and has no items, it is still in the root set if it was a root, the
\* collector's iteration over it visits nothing, and the destination has the
\* items the source had, in the same order.
C17_MovedFromVectorIsEmpty ==
    lastCall.op = "vmove" =>
        /\ lastCall.ok
        /\ lastCall.src \in DOMAIN vData
        /\ vData[lastCall.src] = <<>>
        /\ isRoot[lastCall.src] => lastCall.src \in gcContainerRootNodes
        /\ LET m == [color |-> color, gray |-> <<>>, critical |-> FALSE, wild |-> FALSE,
                     scanned |-> <<>>]
           IN  markContainerItems(m, lastCall.src, NodeWorld) = m
        /\ vData[lastCall.dst] = lastCall.itemsBefore

\* a local vector with two different items was moved into the field of an object
C17_Witness ==
    /\ lastCall.op = "vmove"
    /\ Len(lastCall.itemsBefore) = MaxItems
    /\ lastCall.itemsBefore[1] # lastCall.itemsBefore[2]
    /\ lastCall.src \in gcContainerRootNodes
    /\ lastCall.dst \notin gcContainerRootNodes
    /\ vData[lastCall.dst] = lastCall.itemsBefore

(***************************************************************************)
(* Properties of an object under construction.                             *)
(***************************************************************************)
\* the allocation is in both collections of the collector
IsRegistered(a) ==
    /\ a \in existingAllocations
    /\ getAllocationInfo(a) \in DOMAIN allocationInfoRefs
    /\ allocationInfoRefs[getAllocationInfo(a)] = a

\* the makeGc calls whose user constructor is about to start or is running
RunningConstructors ==
    {f \in UNION {Range(frames[t]) : t \in Threads} :
        f.op = "makeGc" /\ f.pc \in {"fields", "body"}}

\* the constructor body of a ThisFoo object returns in this step
ThisFooBodyReturns(t) ==
    /\ ~Idle(t)
    /\ Top(t).op = "makeGc" /\ Top(t).type = "ThisFoo" /\ Top(t).pc = "body"
    /\ frames'[t] # frames[t]

\* C19: an allocation is in existingAllocations and its info is in
\* allocationInfoRefs from before the construction of the user object (its
\* fields, then the constructor body) starts until the body returns, and
\* `pThis = this;` in the body returns without critical error with pThis
\* pointing to the object under construction.
C19_RegisteredBeforeConstructor ==
    /\ [](\A f \in RunningConstructors : IsRegistered(f.alloc))
    /\ [][\A t \in Threads : ThisFooBodyReturns(t) =>
              /\ ~criticalError'
              /\ ptrTarget'[getAllocatedObject(Top(t).alloc)
                              + TypeLayout["ThisFoo"].fields[1].off] = Top(t).alloc
              /\ IsRegistered(Top(t).alloc)]_vars

\* the body of ThisFoo's constructor has returned and the construction guard
\* is still alive: pThis points to the object, no critical error
C19_Witness ==
    /\ ~Idle(MainThread)
    /\ Top(MainThread).op = "makeGc"
    /\ Top(MainThread).type = "ThisFoo"
    /\ Top(MainThread).pc = "guard"
    /\ Top(MainThread).alloc \in Range(constructing)
    /\ ptrTarget[getAllocatedObject(Top(MainThread).alloc)
                   + TypeLayout["ThisFoo"].fields[1].off] = Top(MainThread).alloc
    /\ ~criticalError

(***************************************************************************)
(* Properties of the mutex.                                                *)
(***************************************************************************)
\* C20: a thread that is between the start of the mark phase and the end of
\* the sweep phase of its collectGarbage call holds the mutex, and no step of
\* another thread taken in the meantime changes the target of a GcPtr or
\* creates or destroys one: bindings from raw pointers, copies, moves, resets
\* and makeGc wait for the mutex.
C20_TargetsFixedDuringCollection ==
    /\ [](\A c \in Threads : BetweenMarkAndSweep(c) => gcOwner = c)
    /\ [][\A c \in Threads :
             (BetweenMarkAndSweep(c) /\ frames'[c] = frames[c]) =>
                 /\ ptrTarget' = ptrTarget
                 /\ gcOwner' = c]_vars

\* a collection has marked and not yet swept while the other thread is in the
\* middle of a move assignment, its second write still to come
C20_Witness ==
    /\ BetweenMarkAndSweep(CollectorThread)
    /\ ~Idle(MainThread)
    /\ Top(MainThread).op = "move"
    /\ Top(MainThread).node \in DOMAIN ptrTarget
    /\ ptrTarget[Top(MainThread).node] # NULL

(***************************************************************************)
(* Construction of a LateFoo object.  The member `helper` is constructed   *)
(* first: its constructor runs `sgc::makeGc<Foo>(0);`, the nested call     *)
(* constructs its result on the stack.  When the nested call has returned  *)
(* the temporary result is destroyed and the GcPtr field declared after    *)
(* `helper` is constructed; the constructor body is empty.                 *)
(***************************************************************************)
LateFooHelper(t) ==
    /\ ~Idle(t)
    /\ Top(t).op = "makeGc" /\ Top(t).pc = "fields" /\ Top(t).type = "LateFoo"
    /\ LET node == TempAddr(t, Len(frames[t]) - 1)
       IN  /\ SetWorld(constructGcPtr(NodeWorld, node, TRUE, constructing, allocType))
           /\ frames' = [frames EXCEPT ![t] =
                  Append(SubSeq(@, 1, Len(@) - 1), [Top(t) EXCEPT !.pc = "late"])
                  \o <<[op |-> "makeGc", pc |-> "alloc", type |-> "Foo", arg |-> 0,
                        node |-> node, alloc |-> NULL, dest |-> NULL]>>]
    /\ lastCollect' = NoCollect
    /\ criticalError' = FALSE
    /\ AllocUnchanged
    /\ LockUnchanged
    /\ UNCHANGED <<constructing, vGrayAllocations>>

LateFooLateField(t) ==
    /\ ~Idle(t)
    /\ Top(t).op = "makeGc" /\ Top(t).pc = "late"
    /\ LET a == Top(t).alloc
           w0 == destroyGcPtr(NodeWorld, TempAddr(t, Len(frames[t]) - 1))
           w == constructFields(w0, getAllocatedObject(a), TypeLayout["LateFoo"].fields,
                                constructing, allocType)
       IN  /\ SetWorld([w EXCEPT !.stdItems[a] = <<>>])
           /\ criticalError' = (w.errors > 0)
    /\ frames' = SetTop(t, [Top(t) EXCEPT !.pc = "guard"])
    /\ lastCollect' = NoCollect
    /\ AllocUnchanged
    /\ LockUnchanged
    /\ UNCHANGED <<constructing, vGrayAllocations>>

NestTypes == {"Foo", "LateFoo"}

NestUserCode(t) ==
        \/ \E T \in NestTypes, arg \in 0..MaxDepth : MakeGcBegin(t, T, arg)
        \/ MakeGcAlloc(t)
        \/ MakeGcFields(t)
        \/ MakeGcBody(t)
        \/ MakeGcFinish(t)
        \/ LateFooHelper(t)
        \/ LateFooLateField(t)
        \/ \E i \in 1..MaxSlots : DestroyVar(t, i)
        \/ \E dst \in DOMAIN ptrTarget : ResetPtr(t, dst)
        \/ CollectGarbage(t)

NextNest == NestUserCode(MainThread) /\ UNCHANGED <<task, cancelTask, DEBUG, pendingNodeGraphChanges, lastCall>>

SpecNest == Init /\ [][NextNest]_vars

(***************************************************************************)
(* A constructor that throws.  The exception leaves the constructor body   *)
(* of the innermost makeGc call, or arrives from a nested makeGc call in   *)
(* the body of an outer constructor that does not catch it.  The language  *)
(* destroys the members that were constructed, the placement new of        *)
(* registerNewAllocationWithInfo frees nothing, ~GcAllocationConstruction- *)
(* Guard erases the allocation from the array of constructing objects, the *)
(* statement that sets the type's flag and `delete` are not reached, the   *)
(* scoped_lock of initializeFromNewAllocation unlocks and `pGcPtr` of      *)
(* makeGc is destroyed.                                                    *)
(***************************************************************************)
\* a construction that sets the type's flag although the constructor threw
freezeOnException(tinfo, T) ==
    [tinfo EXCEPT ![T].bAllGcNodeFieldOffsetsInitialized = TRUE]

\* registerNewAllocationWithInfo left by the exception of the constructor: the
\* statement behind the guard's scope (`... = true;`) is not reached, the type
\* information stays as the constructors of the fields left it
leftByException(tinfo, T) == tinfo

ConstructorThrows(t) ==
    /\ ~Idle(t)
    /\ Top(t).op = "makeGc" /\ Top(t).pc \in {"body", "unwind"}
    /\ LET f == Top(t)
           g == guardDestructor(constructing, f.alloc)
           w0 == invokeDestructor([NodeWorld EXCEPT !.typeInfo = leftByException(@, f.type)],
                                  f.alloc, f.type)
           w == destroyGcPtr(w0, f.node)
           rest == SubSeq(frames[t], 1, Len(frames[t]) - 1)
       IN  /\ constructing' = g.stack
           /\ SetWorld(w)
           /\ criticalError' = (g.critical \/ w.errors > 0)
           /\ frames' = [frames EXCEPT ![t] =
                  IF rest = <<>> THEN rest
                  ELSE Append(SubSeq(rest, 1, Len(rest) - 1),
                              [rest[Len(rest)] EXCEPT !.pc = "unwind"])]
           /\ lastCall' = [NoCall EXCEPT !.op = "throw", !.raw = f.alloc, !.ok = FALSE]
    /\ gcDepth' = gcDepth - 1
    /\ gcOwner' = IF gcDepth = 1 THEN 0 ELSE gcOwner
    /\ lastCollect' = NoCollect
    /\ AllocUnchanged
    /\ UNCHANGED <<vGrayAllocations, task, cancelTask, DEBUG, pendingNodeGraphChanges>>

ThrowTypes == PlainTypes

ThrowLibrary(t) ==
        \/ \E T \in ThrowTypes, arg \in 0..MaxDepth : MakeGcBegin(t, T, arg)
        \/ MakeGcAlloc(t)
        \/ MakeGcFields(t)
        \/ MakeGcBody(t)
        \/ MakeGcFinish(t)
        \/ \E i \in 1..MaxSlots : DestroyVar(t, i)
        \/ \E dst \in DOMAIN ptrTarget : ResetPtr(t, dst)
        \/ \E dst \in DOMAIN ptrTarget, src \in AllocIds : CopyAssign(t, dst, src)

NextThrow ==
        \/ ThrowLibrary(MainThread) /\ lastCall' = NoCall /\ UNCHANGED <<task, cancelTask, DEBUG, pendingNodeGraphChanges>>
        \/ ConstructorThrows(MainThread)

SpecThrow == Init /\ [][NextThrow]_vars

(***************************************************************************)
(* A program of one thread that constructs Foo objects (with and without   *)
(* a nested makeGc in the constructor), drops them and calls               *)
(* collectGarbage; the thread does not stop in the middle of a call.       *)
(***************************************************************************)
\* the steps of makeGc after its first statement
MakeGcContinues(t) ==
        \/ MakeGcAlloc(t)
        \/ MakeGcFields(t)
        \/ MakeGcBody(t)
        \/ MakeGcFinish(t)

\* the steps that continue a library call in progress
ContinueCall(t) ==
        \/ MakeGcContinues(t) /\ lastCall' = NoCall /\ UNCHANGED <<task, cancelTask, DEBUG, pendingNodeGraphChanges>>
        \/ CollectSweep(t)

ReenterLibrary(t) ==
        \/ \E arg \in 0..MaxDepth : MakeGcBegin(t, "Foo", arg)
        \/ \E i \in 1..MaxSlots : DestroyVar(t, i)
        \/ \E dst \in DOMAIN ptrTarget : ResetPtr(t, dst)

NextReenter ==
        \/ ReenterLibrary(MainThread) /\ lastCall' = NoCall /\ UNCHANGED <<task, cancelTask, DEBUG, pendingNodeGraphChanges>>
        \/ CollectMark(MainThread)
        \/ ContinueCall(MainThread)

SpecReenter == Init /\ [][NextReenter]_vars /\ WF_vars(ContinueCall(MainThread))

(***************************************************************************)
(* README "Thread safety": a thread is started (`addThread`) that either   *)
(* runs `const auto pOther = sgc::makeGc<Foo>();` or does not use the      *)
(* library, then sets a promise; the thread that started it waits for the  *)
(* promise (`future.get()`).  The thread is started by user code, by the   *)
(* constructor of WaitFoo (run by makeGc) or by the destructor of WaitFoo  *)
(* (run by the sweep of collectGarbage).  task[LaunchedThread] is          *)
(* "waiting" (not started), "gc" or "plain" (started, what it runs) or     *)
(* "done" (promise set).                                                   *)
(***************************************************************************)
LaunchedThread == MainThread + 1

Work == {"gc", "plain"}

WaitUnchanged ==
    /\ lastCollect' = NoCollect
    /\ lastCall' = NoCall
    /\ criticalError' = FALSE
    /\ AllocUnchanged
    /\ LockUnchanged
    /\ UNCHANGED <<typeInfo, ptrTarget, vData, isRoot, stdItems, gcPtrRootNodes,
                   gcContainerRootNodes, constructing, vGrayAllocations, cancelTask, DEBUG, pendingNodeGraphChanges>>

\* the thread is in `future.get()` of a constructor or destructor
WaitingForPromise(t) == ~Idle(t) /\ Top(t).pc = "wait"

\* one started thread at a time: the thread started before has returned
CanLaunch == task[LaunchedThread] = "waiting" /\ LiveVars(LaunchedThread) = {}

\* user code starts the thread
LaunchFromUserCode(t, work) ==
    /\ Idle(t)
    /\ CanLaunch
    /\ task' = [task EXCEPT ![LaunchedThread] = work]
    /\ UNCHANGED frames
    /\ WaitUnchanged

\* user code waits for the promise
Join(t) ==
    /\ Idle(t)
    /\ task[LaunchedThread] = "done"
    /\ task' = [task EXCEPT ![LaunchedThread] = "waiting"]
    /\ UNCHANGED frames
    /\ WaitUnchanged

\* WaitFoo::WaitFoo() starts the thread and calls future.get()
LaunchFromConstructor(t, work) ==
    /\ ~Idle(t)
    /\ Top(t).op = "makeGc" /\ Top(t).type = "WaitFoo" /\ Top(t).pc = "body"
    /\ CanLaunch
    /\ task' = [task EXCEPT ![LaunchedThread] = work]
    /\ frames' = SetTop(t, [Top(t) EXCEPT !.pc = "wait"])
    /\ WaitUnchanged

\* future.get() returns in the constructor, the constructor returns
ConstructorWaitEnds(t) ==
    /\ WaitingForPromise(t)
    /\ Top(t).op = "makeGc"
    /\ task[LaunchedThread] = "done"
    /\ task' = [task EXCEPT ![LaunchedThread] = "waiting"]
    /\ frames' = SetTop(t, [Top(t) EXCEPT !.pc = "guard"])
    /\ WaitUnchanged

\* the WaitFoo objects that the sweep will delete
WhiteWaitFoos == {a \in existingAllocations : color[a] = "WHITE" /\ allocType[a] = "WaitFoo"}

\* the sweep deletes a WaitFoo object: WaitFoo::~WaitFoo() starts the thread
\* and calls future.get() (`dest` of the collectGarbage call counts the
\* destructors that have returned)
LaunchFromDestructor(t, work) ==
    /\ BetweenMarkAndSweep(t)
    /\ Top(t).pc = "sweep"
    /\ Top(t).dest < Cardinality(WhiteWaitFoos)
    /\ CanLaunch
    /\ task' = [task EXCEPT ![LaunchedThread] = work]
    /\ frames' = SetTop(t, [Top(t) EXCEPT !.pc = "wait"])
    /\ WaitUnchanged

\* future.get() returns in the destructor, the sweep goes on
DestructorWaitEnds(t) ==
    /\ WaitingForPromise(t)
    /\ Top(t).op = "collect"
    /\ task[LaunchedThread] = "done"
    /\ task' = [task EXCEPT ![LaunchedThread] = "waiting"]
    /\ frames' = SetTop(t, [Top(t) EXCEPT !.pc = "sweep", !.dest = @ + 1])
    /\ WaitUnchanged

\* the sweep of a collectGarbage call whose WaitFoo destructors have returned
WaitSweep(t) ==
    /\ BetweenMarkAndSweep(t)
    /\ Top(t).pc # "wait"
    /\ Top(t).pc = "sweep" => Top(t).dest = Cardinality(WhiteWaitFoos)
    /\ CollectSweep(t)

\* the started thread: `const auto pOther = sgc::makeGc<Foo>();`
LaunchedMakeGc(w) ==
    /\ task[w] = "gc"
    /\ LiveVars(w) = {}
    /\ MakeGcBegin(w, "Foo", 0)
    /\ UNCHANGED <<task, cancelTask, DEBUG, pendingNodeGraphChanges, lastCall>>

LaunchedConstruct(w) ==
    /\ task[w] = "gc"
    /\ MakeGcAlloc(w) \/ MakeGcFields(w) \/ MakeGcBody(w) \/ MakeGcFinish(w)
    /\ UNCHANGED <<task, cancelTask, DEBUG, pendingNodeGraphChanges, lastCall>>

\* the started thread: `pPromise->set_value(true);`
SetPromise(w) ==
    /\ Idle(w)
    /\ \/ task[w] = "plain"
       \/ task[w] = "gc" /\ \E i \in LiveVars(w) : ptrTarget[VarAddr(w, i)] # NULL
    /\ task' = [task EXCEPT ![w] = "done"]
    /\ UNCHANGED frames
    /\ WaitUnchanged

\* the started thread returns: pOther is destroyed
LaunchedEnds(w) ==
    /\ task[w] \in {"done", "waiting"}
    /\ \E i \in 1..MaxSlots : DestroyVar(w, i)
    /\ UNCHANGED <<task, cancelTask, DEBUG, pendingNodeGraphChanges, lastCall>>

WaitLibrary(t) ==
        \/ MakeGcBegin(t, "WaitFoo", 0)
        \/ MakeGcAlloc(t)
        \/ MakeGcFields(t)
        \/ MakeGcFinish(t)
        \/ \E i \in 1..MaxSlots : DestroyVar(t, i)

NextWait ==
        \/ WaitLibrary(MainThread) /\ lastCall' = NoCall /\ UNCHANGED <<task, cancelTask, DEBUG, pendingNodeGraphChanges>>
        \/ CollectMark(MainThread)
        \/ WaitSweep(MainThread)
        \/ \E work \in Work : LaunchFromUserCode(MainThread, work)
        \/ Join(MainThread)
        \/ \E work \in Work : LaunchFromConstructor(MainThread, work)
        \/ ConstructorWaitEnds(MainThread)
        \/ \E work \in Work : LaunchFromDestructor(MainThread, work)
        \/ DestructorWaitEnds(MainThread)
        \/ LaunchedMakeGc(LaunchedThread)
        \/ LaunchedConstruct(LaunchedThread)
        \/ SetPromise(LaunchedThread)
        \/ LaunchedEnds(LaunchedThread)

SpecWait == Init /\ [][NextWait]_vars

(***************************************************************************)
(* GcVector members that change vData, called while another thread         *)
(* collects.  gccontainers/GcVector.hpp takes the collector's mutex as the *)
(* first statement of each of them (reserve and shrink_to_fit too: they    *)
(* move the buffer and leave the items as they are, the capacity is not    *)
(* part of the state here).  public/GcVector.hpp is another revision of    *)
(* the header: its members lock in the same way except for the count       *)
(* constructor, which fills vData in its member initializer list.          *)
(***************************************************************************)
\* `v.erase(v.begin() + (pos - 1))`: the items behind pos move down by one
\* place, the last item is destroyed
Erase(t, v, pos) ==
    /\ Idle(t)
    /\ CanLock(t)
    /\ v \in UserVecs(t)
    /\ pos \in 1..Len(vData[v])
    /\ SetWorld([NodeWorld EXCEPT !.vData[v] = RemoveAt(@, pos)])
    /\ criticalError' = FALSE
    /\ lastCollect' = NoCollect
    /\ AllocUnchanged
    /\ LockUnchanged
    /\ UNCHANGED <<constructing, vGrayAllocations, frames>>

\* `v.pop_back()` of a vector that has items
PopBack(t, v) ==
    /\ Idle(t)
    /\ CanLock(t)
    /\ v \in UserVecs(t)
    /\ vData[v] # <<>>
    /\ SetWorld([NodeWorld EXCEPT !.vData[v] = SubSeq(@, 1, Len(@) - 1)])
    /\ criticalError' = FALSE
    /\ lastCollect' = NoCollect
    /\ AllocUnchanged
    /\ LockUnchanged
    /\ UNCHANGED <<constructing, vGrayAllocations, frames>>

\* the items of `std::vector<vec_item_t>(iCount, value)`: iCount copies of value
RECURSIVE countItems(_, _)
countItems(iCount, target) ==
    IF iCount = 0 THEN <<>> ELSE Append(countItems(iCount - 1, target), target)

\* `GcVector<GcPtr<T>> v(iCount, src);` with gccontainers/GcVector.hpp: src is
\* converted to a temporary vec_item_t, GcContainerBase's constructor runs,
\* then the mutex is taken and vData is assigned the vector of iCount copies
CountConstruct(t, iCount, src) ==
    /\ Idle(t)
    /\ CanLock(t)
    /\ VecVarAddr(t) \notin DOMAIN vData
    /\ iCount \in 1..MaxItems
    /\ src \in UserObjects(t)
    /\ LET dst == VecVarAddr(t)
           value == setAllocationFromUserObject(NULL, getUserObject(src), allocationInfoRefs)
           c == copyItems(countItems(iCount, value.target), allocationInfoRefs)
           w1 == constructGcVector(NodeWorld, dst, constructing, allocType)
           w == constructVecItems(w1, dst, 1, iCount, constructing, allocType)
       IN  /\ value.ok /\ c.ok
           /\ SetWorld([w EXCEPT !.vData[dst] = c.items])
    /\ criticalError' = FALSE
    /\ lastCollect' = NoCollect
    /\ AllocUnchanged
    /\ LockUnchanged
    /\ UNCHANGED <<constructing, vGrayAllocations, frames>>

\* the same statement with public/GcVector.hpp, up to the member initializer
\* of vData: the conversion of src and GcContainerBase's constructor (each
\* takes the mutex for itself and releases it).  From here on the container
\* is in the root set and its vData is not constructed yet.
CountConstructBase(t, iCount, src) ==
    /\ Idle(t)
    /\ CanLock(t)
    /\ VecVarAddr(t) \notin DOMAIN vData
    /\ iCount \in 1..MaxItems
    /\ src \in UserObjects(t)
    /\ LET dst == VecVarAddr(t)
           value == setAllocationFromUserObject(NULL, getUserObject(src), allocationInfoRefs)
       IN  /\ value.ok
           /\ SetWorld(constructGcVector(NodeWorld, dst, constructing, allocType))
           /\ frames' = [frames EXCEPT ![t] = Append(@,
                  [op |-> "vcount", pc |-> "items", type |-> "none", arg |-> iCount,
                   node |-> dst, alloc |-> value.target, dest |-> NULL])]
    /\ criticalError' = FALSE
    /\ lastCollect' = NoCollect
    /\ AllocUnchanged
    /\ LockUnchanged
    /\ UNCHANGED <<constructing, vGrayAllocations>>

\* `vData(iCount, value)`: the next item is copy constructed from value in the
\* buffer of vData.  The copy constructor of the item takes the mutex while
\* it binds the item; the constructor of GcVector holds no mutex around the
\* items, so that a collection of another thread can run between two of them.
CountConstructItem(t) ==
    /\ ~Idle(t)
    /\ Top(t).op = "vcount"
    /\ CanLock(t)
    /\ LET v == Top(t).node
           n == Len(vData[v])
           r == setAllocationFromUserObject(NULL, getUserObject(Top(t).alloc), allocationInfoRefs)
           w == constructVecItems(NodeWorld, v, n + 1, n + 1, constructing, allocType)
       IN  /\ SetWorld([w EXCEPT !.vData[v] = IF r.ok THEN Append(@, r.target) ELSE @])
           /\ criticalError' = ~r.ok
           /\ frames' = IF r.ok /\ n + 1 < Top(t).arg THEN frames ELSE Pop(t)
    /\ lastCollect' = NoCollect
    /\ AllocUnchanged
    /\ LockUnchanged
    /\ UNCHANGED <<constructing, vGrayAllocations>>

\* the members of GcVector that both revisions of the header have
VecMutators(t) ==
        \/ \E dst \in DOMAIN vData, src \in DOMAIN vData, bMove \in BOOLEAN :
              VecAssign(t, dst, src, bMove)
        \/ \E src \in DOMAIN vData, bMove \in BOOLEAN : VecConstruct(t, src, bMove)
        \/ \E v \in DOMAIN vData, iCount \in 0..MaxVecLen : Resize(t, v, iCount)
        \/ \E v \in DOMAIN vData, src \in AllocIds : EmplaceBack(t, v, src)

VecLockLibrary(t) ==
        \/ MakeGcBegin(t, "VecFoo", 0)
        \/ MakeGcAlloc(t)
        \/ MakeGcFields(t)
        \/ MakeGcBody(t)
        \/ MakeGcFinish(t)
        \/ \E i \in 1..MaxSlots : DestroyVar(t, i)
        \/ DestroyVecVar(t)
        \/ \E v \in DOMAIN vData, src \in AllocIds : PushBack(t, v, src)
        \/ \E v \in DOMAIN vData : ClearVec(t, v)
        \/ \E v \in DOMAIN vData, pos \in 1..MaxItems : Erase(t, v, pos)
        \/ \E v \in DOMAIN vData : PopBack(t, v)

(***************************************************************************)
(* A program of two threads built with gccontainers/GcVector.hpp: one      *)
(* allocates VecFoo objects and changes the GcVectors it can name, the     *)
(* other calls collectGarbage.                                             *)
(***************************************************************************)
NextVecLock ==
        \/ VecLockLibrary(MainThread) /\ lastCall' = NoCall /\ UNCHANGED <<task, cancelTask, DEBUG, pendingNodeGraphChanges>>
        \/ VecMutators(MainThread)
        \/ \E v \in DOMAIN vData, pos \in 1..MaxItems, src \in AllocIds :
              Insert(MainThread, v, pos, src)
        \/ /\ \E iCount \in 1..MaxItems, src \in AllocIds : CountConstruct(MainThread, iCount, src)
           /\ lastCall' = NoCall
           /\ UNCHANGED <<task, cancelTask, DEBUG, pendingNodeGraphChanges>>
        \/ CollectMark(CollectorThread)
        \/ CollectSweep(CollectorThread)

SpecVecLock == Init /\ [][NextVecLock]_vars

(***************************************************************************)
(* The same program built with public/GcVector.hpp (it has no insert).     *)
(***************************************************************************)
CountConstructOlder(t) ==
        \/ \E iCount \in 1..MaxItems, src \in AllocIds : CountConstructBase(t, iCount, src)
        \/ CountConstructItem(t)

NextVecOlder ==
        \/ VecLockLibrary(MainThread) /\ lastCall' = NoCall /\ UNCHANGED <<task, cancelTask, DEBUG, pendingNodeGraphChanges>>
        \/ VecMutators(MainThread)
        \/ CountConstructOlder(MainThread) /\ lastCall' = NoCall /\ UNCHANGED <<task, cancelTask, DEBUG, pendingNodeGraphChanges>>
        \/ CollectMark(CollectorThread)
        \/ CollectSweep(CollectorThread)

SpecVecOlder == Init /\ [][NextVecOlder]_vars

(***************************************************************************)
(* Two threads and one GcPtr (README, "Thread safety"): the main thread    *)
(* owns `pFoo` and passes it by reference to two threads it launches.  One *)
(* runs `GcPtr<T> pDst; pDst = std::move(pFoo);`, the other runs           *)
(* `pFoo = sgc::makeGc<T>();`.  The move assignment is three steps:        *)
(* `pOther.get()` reads the source with no mutex held, the first           *)
(* updateInternalPointers binds the destination, the second clears the     *)
(* source; each updateInternalPointers takes the mutex for itself.  The    *)
(* read races with the write of the other thread: it returns the target    *)
(* the source had before that write or the one it has after it.            *)
(* lastCall keeps what the formulas need of the past: the target of pFoo   *)
(* when the threads were launched (dstBefore) and the allocation that the  *)
(* makeGc call of the second thread returned (srcBefore).                  *)
(***************************************************************************)
pFoo == VarAddr(MainThread, 1)
MoverThread == MainThread + 1
AssignerThread == MainThread + 2
pDst == VarAddr(MoverThread, 1)
pFresh == VarAddr(AssignerThread, 1)

\* the main thread has constructed pFoo and starts the two threads
ShareLaunch(t) ==
    /\ Idle(t)
    /\ pFoo \in DOMAIN ptrTarget
    /\ \A w \in Workers : task[w] = "waiting"
    /\ task' = [w \in Workers |-> "running"]
    /\ lastCall' = [NoCall EXCEPT !.op = "share", !.dst = pFoo, !.dstBefore = ptrTarget[pFoo]]
    /\ lastCollect' = NoCollect
    /\ AllocUnchanged
    /\ LockUnchanged
    /\ UNCHANGED <<typeInfo, ptrTarget, vData, isRoot, stdItems, gcPtrRootNodes,
                   gcContainerRootNodes, constructing, vGrayAllocations, frames,
                   criticalError, cancelTask, DEBUG, pendingNodeGraphChanges>>

\* `pOther.get()` of `dst = std::move(src)`: GcPtrBase::getUserObject reads
\* pAllocation of the source, no mutex is taken
MoveRead(t, dst, src) ==
    /\ Idle(t)
    /\ dst \in DOMAIN ptrTarget
    /\ src \in DOMAIN ptrTarget
    /\ ~isSelfAssignment(dst, src)
    /\ frames' = [frames EXCEPT ![t] = Append(@,
           [op |-> "move", pc |-> "bind", type |-> "none", arg |-> ptrTarget[dst],
            node |-> src, alloc |-> ptrTarget[src], dest |-> dst])]
    /\ lastCollect' = NoCollect
    /\ AllocUnchanged
    /\ LockUnchanged
    /\ UNCHANGED <<typeInfo, ptrTarget, vData, isRoot, stdItems, gcPtrRootNodes,
                   gcContainerRootNodes, constructing, vGrayAllocations, criticalError>>

\* `updateInternalPointers(<what get() returned>)`: the destination is bound
\* under the mutex
MoveBind(t) ==
    /\ ~Idle(t)
    /\ Top(t).op = "move" /\ Top(t).pc = "bind"
    /\ CanLock(t)
    /\ LET r == setAllocationFromUserObject(ptrTarget[Top(t).dest],
                                            getUserObject(Top(t).alloc), allocationInfoRefs)
       IN  /\ ptrTarget' = [ptrTarget EXCEPT ![Top(t).dest] = r.target]
           /\ criticalError' = ~r.ok
           /\ frames' = IF r.ok THEN SetTop(t, [Top(t) EXCEPT !.pc = "clear"]) ELSE Pop(t)
    /\ lastCollect' = NoCollect
    /\ AllocUnchanged
    /\ LockUnchanged
    /\ UNCHANGED <<typeInfo, vData, isRoot, stdItems, gcPtrRootNodes, gcContainerRootNodes,
                   constructing, vGrayAllocations>>

\* `pOther.updateInternalPointers(nullptr);` and the return of operator=
MoveClear(t) ==
    /\ ~Idle(t)
    /\ Top(t).op = "move" /\ Top(t).pc = "clear"
    /\ CanLock(t)
    /\ ptrTarget' = [ptrTarget EXCEPT ![Top(t).node] =
                        setAllocationFromUserObject(@, NULL, allocationInfoRefs).target]
    /\ frames' = Pop(t)
    /\ criticalError' = FALSE
    /\ lastCollect' = NoCollect
    /\ AllocUnchanged
    /\ LockUnchanged
    /\ UNCHANGED <<typeInfo, vData, isRoot, stdItems, gcPtrRootNodes, gcContainerRootNodes,
                   constructing, vGrayAllocations>>

\* the main thread before it launches the threads: `GcPtr<T> pFoo;` or
\* `GcPtr<T> pFoo = sgc::makeGc<T>();`
MainPrepares(t) ==
    /\ \A w \in Workers : task[w] = "waiting"
    /\ \/ NewVar(t)
       \/ \E T \in PlainTypes : MakeGcBegin(t, T, 0)
       \/ MakeGcAlloc(t)
       \/ MakeGcFields(t)
       \/ MakeGcBody(t)
       \/ MakeGcFinish(t)
    /\ lastCall' = NoCall
    /\ UNCHANGED <<task, cancelTask, DEBUG, pendingNodeGraphChanges>>

\* thread #0: `GcPtr<T> pDst;`, then the move out of pFoo
MoverDeclares(t) ==
    /\ task[t] = "running"
    /\ NewVar(t)
    /\ UNCHANGED <<lastCall, task, cancelTask, DEBUG, pendingNodeGraphChanges>>

MoverMoves(t) ==
    /\ task[t] = "running"
    /\ \/ MoveRead(t, pDst, pFoo)
       \/ MoveBind(t)
    /\ UNCHANGED <<lastCall, task, cancelTask, DEBUG, pendingNodeGraphChanges>>

MoverClears(t) ==
    /\ MoveClear(t)
    /\ task' = [task EXCEPT ![t] = "finished"]
    /\ UNCHANGED <<lastCall, cancelTask, DEBUG, pendingNodeGraphChanges>>

\* thread #1: the makeGc call (of the type pFoo points to), its result is the
\* temporary pFresh
AssignerMakeGc(t) ==
    /\ task[t] = "running"
    /\ lastCall.srcBefore = NULL
    /\ \/ \E T \in PlainTypes :
             /\ lastCall.dstBefore # NULL => T = allocType[lastCall.dstBefore]
             /\ MakeGcBegin(t, T, 0)
       \/ MakeGcAlloc(t)
       \/ MakeGcFields(t)
       \/ MakeGcBody(t)
       \/ MakeGcFinish(t)
    /\ UNCHANGED <<lastCall, task, cancelTask, DEBUG, pendingNodeGraphChanges>>

\* `pFoo = <temporary>`: the source is the thread's own temporary
AssignerReads(t) ==
    /\ task[t] = "running"
    /\ lastCall.srcBefore = NULL
    /\ pFresh \in DOMAIN ptrTarget
    /\ ptrTarget[pFresh] # NULL
    /\ MoveRead(t, pFoo, pFresh)
    /\ lastCall' = [lastCall EXCEPT !.src = pFresh, !.srcBefore = ptrTarget[pFresh]]
    /\ UNCHANGED <<task, cancelTask, DEBUG, pendingNodeGraphChanges>>

AssignerMoves(t) ==
    /\ \/ MoveBind(t)
       \/ MoveClear(t)
    /\ UNCHANGED <<lastCall, task, cancelTask, DEBUG, pendingNodeGraphChanges>>

\* the temporary is destroyed at the end of the statement, the thread returns
AssignerEnds(t) ==
    /\ task[t] = "running"
    /\ lastCall.srcBefore # NULL
    /\ DestroyVar(t, 1)
    /\ task' = [task EXCEPT ![t] = "finished"]
    /\ UNCHANGED <<lastCall, cancelTask, DEBUG, pendingNodeGraphChanges>>

NextShare ==
        \/ MainPrepares(MainThread)
        \/ ShareLaunch(MainThread)
        \/ MoverDeclares(MoverThread)
        \/ MoverMoves(MoverThread)
        \/ MoverClears(MoverThread)
        \/ AssignerMakeGc(AssignerThread)
        \/ AssignerReads(AssignerThread)
        \/ AssignerMoves(AssignerThread)
        \/ AssignerEnds(AssignerThread)

SpecShare == Init /\ [][NextShare]_vars

(***************************************************************************)
(* Properties of the collector's bookkeeping.                              *)
(***************************************************************************)
\* the root set a node of this address belongs to when it is a root
RootSetOf(n) == IF n \in DOMAIN vData THEN gcContainerRootNodes ELSE gcPtrRootNodes

ExistingInfos == {getAllocationInfo(a) : a \in existingAllocations}

\* C27: between the calls of the library (in particular outside of the sweep
\* of collectGarbage) allocationInfoRefs has exactly the info addresses of the
\* allocations in existingAllocations as keys and maps the info of every
\* allocation to that allocation: a one-to-one correspondence.
C27_InfoIndexMatchesAllocations ==
    /\ DOMAIN allocationInfoRefs = ExistingInfos
    /\ \A a \in existingAllocations : allocationInfoRefs[getAllocationInfo(a)] = a
    /\ Cardinality(DOMAIN allocationInfoRefs) = Cardinality(existingAllocations)

\* collectGarbage has just deleted an allocation and kept another one, and
\* the info index has the survivor's info as its only key
C27_Witness ==
    /\ lastCollect.called
    /\ lastCollect.returned > 0
    /\ existingAllocations # {}
    /\ existingAllocations # lastCollect.existingBefore
    /\ DOMAIN allocationInfoRefs = ExistingInfos

(***************************************************************************)
(* Properties of the static type information.                              *)
(***************************************************************************)
\* this step returns from registerNewAllocationWithInfo of thread t: the
\* constructor of the user object has returned
ConstructionCompletes(t) ==
    /\ ~Idle(t)
    /\ Top(t).op = "makeGc" /\ Top(t).pc = "guard"
    /\ Len(frames'[t]) < Len(frames[t])

\* the offsets recorded for type T, GcPtr fields and GcVector fields
RecordedOffsets(T) ==
    Range(typeInfo[T].vGcPtrFieldOffsets) \cup Range(typeInfo[T].vGcContainerFieldOffsets)

\* C28: when a makeGc construction of type T completes, the flag of T that
\* declares its field offsets initialized is true, the flag stays true from
\* then on, and every offset ever recorded for T is smaller than sizeof(T).
C28_CompletedTypeIsFrozen ==
    /\ [](\A T \in Types : \A off \in RecordedOffsets(T) : off >= 0 /\ off < getTypeSize(T))
    /\ [][/\ \A t \in Threads : ConstructionCompletes(t) =>
                  typeInfo'[Top(t).type].bAllGcNodeFieldOffsetsInitialized
           /\ \A T \in Types : typeInfo[T].bAllGcNodeFieldOffsetsInitialized =>
                  typeInfo'[T].bAllGcNodeFieldOffsetsInitialized]_vars

\* Foo and VecFoo objects have been constructed: both types have their flag
\* set, a GcPtr offset is recorded for Foo and a GcVector offset for VecFoo
C28_Witness ==
    /\ \A t \in Threads : Idle(t)
    /\ {allocType[a] : a \in existingAllocations} = {"Foo", "VecFoo"}
    /\ typeInfo["Foo"].bAllGcNodeFieldOffsetsInitialized
    /\ typeInfo["VecFoo"].bAllGcNodeFieldOffsetsInitialized
    /\ typeInfo["Foo"].vGcPtrFieldOffsets # <<>>
    /\ typeInfo["VecFoo"].vGcContainerFieldOffsets # <<>>

\* the offsets of the GcPtr (kind "ptr") or GcVector (kind "cont") fields that
\* the layout of type T has
FieldOffsets(T, kind) ==
    {TypeLayout[T].fields[i].off :
        i \in {j \in DOMAIN TypeLayout[T].fields : TypeLayout[T].fields[j].kind = kind}}

\* the list has every offset of the set, each exactly once
ExactlyOnce(list, offsets) ==
    /\ Range(list) = offsets
    /\ Len(list) = Cardinality(offsets)

\* C29: once the flag of type T is set (a makeGc construction of T has
\* completed), the offset lists of T hold exactly one entry for every GcPtr
\* field and for every GcVector field of T, and no later step changes them.
C29_OffsetsExactlyOncePerField ==
    /\ [](\A T \in Types : typeInfo[T].bAllGcNodeFieldOffsetsInitialized =>
              /\ ExactlyOnce(typeInfo[T].vGcPtrFieldOffsets, FieldOffsets(T, "ptr"))
              /\ ExactlyOnce(typeInfo[T].vGcContainerFieldOffsets, FieldOffsets(T, "cont")))
    /\ [][\A T \in Types : typeInfo[T].bAllGcNodeFieldOffsetsInitialized =>
              typeInfo'[T] = typeInfo[T]]_vars

(***************************************************************************)
(* Properties of nested construction.                                      *)
(***************************************************************************)
\* the GcPtr and GcVector fields of the object of allocation a that are alive
LiveFieldNodes(a) == (FieldNodes(a, "ptr") \cup FieldNodes(a, "cont")) \cap DOMAIN isRoot

\* C30: with makeGc calls nested in constructors, every GcPtr / GcVector
\* field of an object is attributed to the allocation whose memory holds it:
\* it is no root node, its offset is recorded for the type of that allocation
\* and no type has an offset recorded that is not the offset of one of its
\* fields.  This covers the fields of the inner object and a field of the
\* outer object that is constructed after the nested call has returned.
C30_NestedFieldsBelongToTheirAllocation ==
    /\ \A a \in existingAllocations : \A n \in LiveFieldNodes(a) :
           /\ ~isRoot[n]
           /\ n \notin gcPtrRootNodes \cup gcContainerRootNodes
           /\ (n - getAllocatedObject(a)) \in RecordedOffsets(allocType[a])
    /\ \A T \in Types :
           /\ Range(typeInfo[T].vGcPtrFieldOffsets) \subseteq FieldOffsets(T, "ptr")
           /\ Range(typeInfo[T].vGcContainerFieldOffsets) \subseteq FieldOffsets(T, "cont")

\* a LateFoo object has been constructed: its GcPtr field, constructed after
\* the nested makeGc<Foo>(0) returned, is alive and no root, and so is the
\* GcPtr field of the Foo object that the nested call constructed
C30_Witness ==
    /\ \A t \in Threads : Idle(t)
    /\ \E a, b \in existingAllocations :
           /\ allocType[a] = "LateFoo" /\ allocType[b] = "Foo"
           /\ LiveFieldNodes(a) # {} /\ LiveFieldNodes(b) # {}
           /\ \A n \in LiveFieldNodes(a) \cup LiveFieldNodes(b) : ~isRoot[n]
    /\ typeInfo["LateFoo"].vGcPtrFieldOffsets = <<2>>
    /\ typeInfo["Foo"].vGcPtrFieldOffsets = <<1>>
    /\ Cardinality(gcPtrRootNodes) = 1

(***************************************************************************)
(* Properties of makeGc when the constructor throws.                       *)
(***************************************************************************)
\* C25: when an exception thrown by the constructor of T leaves makeGc<T>,
\* the allocation made for the object is neither in existingAllocations nor
\* (by its info) in allocationInfoRefs nor in the array of constructing
\* objects.
C25_ThrowingConstructorLeavesNoAllocation ==
    lastCall.op = "throw" =>
        /\ lastCall.raw \notin existingAllocations
        /\ getAllocationInfo(lastCall.raw) \notin DOMAIN allocationInfoRefs
        /\ lastCall.raw \notin Range(constructing)

(***************************************************************************)
(* Properties of the recursive mutex.                                      *)
(***************************************************************************)
\* the next statement of thread t's call in progress locks mtxGcData.first:
\* initializeFromNewAllocation of a makeGc call, or the destructor of a node
\* of an object that the sweep deletes
AboutToLock(t) ==
    /\ ~Idle(t)
    /\ \/ Top(t).op = "makeGc" /\ Top(t).pc = "alloc"
       \/ Top(t).op = "collect" /\ Top(t).pc = "sweep" /\ SweepRunsNodeDestructors

\* C23: a thread that holds the collector mutex and locks it again (a makeGc
\* call in a constructor, the destructor of a GcPtr / GcVector run by the
\* destructor of an object that the sweep deletes) gets the mutex without
\* waiting, and every call of the thread returns: the thread never waits
\* for itself.
C23_OwnerLocksAgainWithoutBlocking ==
    /\ [](\A t \in Threads : (AboutToLock(t) /\ gcOwner = t) => CanLock(t))
    /\ [](gcOwner # 0 => gcDepth >= 1 /\ ~Idle(gcOwner))
    /\ (~Idle(MainThread)) ~> Idle(MainThread)

\* the thread has constructed a Foo whose constructor called makeGc<Foo>
\* (the first Foo construction: the nested call recorded the field offset a
\* second time), and its last call was a collectGarbage that deleted both
\* objects, running the destructors of their GcPtr fields
C23_Witness ==
    /\ Idle(MainThread)
    /\ gcOwner = 0 /\ gcDepth = 0
    /\ Len(typeInfo["Foo"].vGcPtrFieldOffsets) = 2
    /\ lastCollect.called
    /\ lastCollect.returned = 2

(***************************************************************************)
(* Properties of waiting for a thread in a constructor or destructor.      *)
(***************************************************************************)
\* the constructor or destructor of a WaitFoo object waits for a thread that
\* calls makeGc before it sets the promise
WaitsForGcOperation ==
    WaitingForPromise(MainThread) /\ task[LaunchedThread] = "gc"

\* C24: when the constructor of a managed type (run by makeGc) or its
\* destructor (run by the sweep of collectGarbage) waits for a thread that
\* has to complete a makeGc call first, the waiting thread holds the
\* collector mutex, the other thread has not completed the first statement
\* of makeGc, and no thread takes another step: the program is deadlocked.
C24_WaitingForGcOperationDeadlocks ==
    /\ [](WaitsForGcOperation =>
              /\ gcOwner = MainThread
              /\ Idle(LaunchedThread)
              /\ LiveVars(LaunchedThread) = {})
    /\ [][~WaitsForGcOperation]_vars

\* the constructor of a WaitFoo object, called by makeGc, waits for the
\* thread it started, and that thread is to call makeGc
C24_Witness ==
    /\ WaitsForGcOperation
    /\ Top(MainThread).op = "makeGc"
    /\ Top(MainThread).alloc \in Range(constructing)
    /\ gcOwner = MainThread

(***************************************************************************)
(* GcVector and the collector's mutex.                                     *)
(***************************************************************************)
\* the thread is inside a member of GcVector that builds vData in more than
\* one step
MutatingVector(t) == ~Idle(t) /\ Top(t).op = "vcount"

\* C22: a thread that is in the middle of a GcVector operation which changes
\* vData (construction from a count included) holds the collector's mutex, and
\* no step taken while another thread is between the mark phase and the end of
\* the sweep phase of its collection changes the vData of a container: the
\* collector never enumerates a container in the middle of a mutation.
C22_VectorMutationsHoldTheMutex ==
    /\ [](\A t \in Threads : MutatingVector(t) => gcOwner = t)
    /\ [][\A c \in Threads :
             (BetweenMarkAndSweep(c) /\ frames'[c] = frames[c]) => vData' = vData]_vars
    /\ [][(\E t \in Threads : MutatingVector(t)) =>
             \A c \in Threads : ~BetweenMarkAndSweep(c)']_vars

(***************************************************************************)
(* One GcPtr used by two threads.                                          *)
(***************************************************************************)
\* both threads have returned: the move out of pFoo and the assignment to it
\* are complete
BothReturned == lastCall.op = "share" /\ AllTasksFinished

\* C21: when thread #0 has moved out of pFoo into pDst and thread #1 has
\* assigned a fresh makeGc result to pFoo, the targets are those of the move
\* followed by the assignment (pDst has the old target of pFoo, pFoo the fresh
\* allocation) or those of the assignment followed by the move (pDst has the
\* fresh allocation, pFoo is null).
C21_SharedPointerOperationsSerialize ==
    BothReturned =>
        \/ ptrTarget[pDst] = lastCall.dstBefore /\ ptrTarget[pFoo] = lastCall.srcBefore
        \/ ptrTarget[pDst] = lastCall.srcBefore /\ ptrTarget[pFoo] = NULL

(***************************************************************************)
(* Properties of the collector's error handling.                           *)
(***************************************************************************)
\* C31: a step in which an exception of T's constructor leaves makeGc<T> does
\* not set T's flag: when the flag was unset before the step (T's first
\* construction has not completed) it is unset after it.
C31_ThrowingConstructorLeavesTypeUnfrozen ==
    [][lastCall'.op = "throw" =>
          (~typeInfo[allocType[lastCall'.raw]].bAllGcNodeFieldOffsetsInitialized =>
               ~typeInfo'[allocType[lastCall'.raw]].bAllGcNodeFieldOffsetsInitialized)]_vars

\* the constructor of the first object of a type with a GcPtr field has
\* thrown: the offset of the field is recorded, the flag is unset
C31_Witness ==
    /\ lastCall.op = "throw"
    /\ allocType[lastCall.raw] = "Foo"
    /\ typeInfo["Foo"].vGcPtrFieldOffsets # <<>>
    /\ ~typeInfo["Foo"].bAllGcNodeFieldOffsetsInitialized

(***************************************************************************)
(* The walk over the root pointers in the mark phase.                      *)
(***************************************************************************)
\* the mark state after the reset of collectGarbage run on the current state
afterReset ==
    [color |-> [a \in AllocIds |-> IF a \in existingAllocations THEN "WHITE" ELSE color[a]],
     gray |-> vGrayAllocations, critical |-> FALSE, wild |-> FALSE, scanned |-> <<>>]

\* the root pointers whose target is not WHITE when the walk reaches them and
\* is passed to markAllocationAndProcessFields all the same
RECURSIVE rescannedRoots(_, _, _, _)
rescannedRoots(m, roots, types, world) ==
    IF m.critical \/ roots = <<>> THEN {}
    ELSE LET pGcPtr == Head(roots)
             m1 == markFromRootGcPtrs(m, <<pGcPtr>>, types, world)
             again == /\ world.ptrTarget[pGcPtr] # NULL
                      /\ m.color[world.ptrTarget[pGcPtr]] # "WHITE"
                      /\ Len(m1.scanned) > Len(m.scanned)
         IN  (IF again THEN {pGcPtr} ELSE {})
                 \cup rescannedRoots(m1, Tail(roots), types, world)

\* C32: in the mark phase of a collection started in the current state, a
\* root pointer's target is marked and scanned only if it is non-null and
\* WHITE when the walk reaches the pointer: no root pointer whose target is
\* already BLACK has its target marked and scanned again.
C32_RootTargetScannedOnlyWhileWhite ==
    rescannedRoots(afterReset, SetToSeq(gcPtrRootNodes), allocType, NodeWorld) = {}

(***************************************************************************)
(* Constructors that use the collector.  The body of a constructor can     *)
(* store `this` in a GcPtr with static storage (`pKeeper = this;`, GcPtr's *)
(* assignment from a raw pointer) and can call collectGarbage: the thread  *)
(* holds the recursive mutex since initializeFromNewAllocation and locks   *)
(* it once more.  An exception that leaves collectGarbage in a constructor *)
(* ends the run (a throwing constructor is followed in SpecThrow).  When   *)
(* the sweep deletes the object whose constructor is running, what the     *)
(* constructor does next is undefined: the program is not followed beyond  *)
(* that point.                                                             *)
(***************************************************************************)
\* `static sgc::GcPtr<Foo> pKeeper;`: not in the frame of the main thread
pKeeper == VarAddr(MainThread + 1, 1)

ConstructorsAlive(t) ==
    \A i \in DOMAIN frames[t] : frames[t][i].alloc \in existingAllocations \cup {NULL}

\* the first use of pKeeper constructs it
DeclareKeeper(t) ==
    /\ Idle(t)
    /\ CanLock(t)
    /\ pKeeper \notin DOMAIN ptrTarget
    /\ SetWorld(constructGcPtr(NodeWorld, pKeeper, TRUE, constructing, allocType))
    /\ lastCollect' = NoCollect
    /\ criticalError' = FALSE
    /\ AllocUnchanged
    /\ LockUnchanged
    /\ UNCHANGED <<constructing, vGrayAllocations, frames>>

\* `pKeeper = nullptr;`
ResetKeeper(t) ==
    /\ Idle(t)
    /\ CanLock(t)
    /\ pKeeper \in DOMAIN ptrTarget
    /\ ptrTarget[pKeeper] # NULL
    /\ ptrTarget' = [ptrTarget EXCEPT ![pKeeper] =
                        setAllocationFromUserObject(@, NULL, allocationInfoRefs).target]
    /\ lastCollect' = NoCollect
    /\ criticalError' = FALSE
    /\ AllocUnchanged
    /\ LockUnchanged
    /\ UNCHANGED <<typeInfo, vData, isRoot, stdItems, gcPtrRootNodes, gcContainerRootNodes,
                   constructing, vGrayAllocations, frames>>

\* `pKeeper = this;` in the body of the constructor
BodyCapturesThis(t) ==
    /\ ~Idle(t)
    /\ Top(t).op = "makeGc" /\ Top(t).pc = "body"
    /\ pKeeper \in DOMAIN ptrTarget
    /\ LET r == setAllocationFromUserObject(ptrTarget[pKeeper],
                                            getAllocatedObject(Top(t).alloc), allocationInfoRefs)
       IN  /\ ptrTarget' = [ptrTarget EXCEPT ![pKeeper] = r.target]
           /\ criticalError' = ~r.ok
    /\ lastCollect' = NoCollect
    /\ AllocUnchanged
    /\ LockUnchanged
    /\ UNCHANGED <<typeInfo, vData, isRoot, stdItems, gcPtrRootNodes, gcContainerRootNodes,
                   constructing, vGrayAllocations, frames>>

\* `sgc::GarbageCollector::get().collectGarbage();` in the body of the constructor
BodyCollects(t) ==
    /\ ~Idle(t)
    /\ Top(t).op = "makeGc" /\ Top(t).pc = "body"
    /\ returnFromCollect(afterCollect)
    /\ frames' = IF criticalError' THEN SetTop(t, [Top(t) EXCEPT !.pc = "unwind"]) ELSE frames
    /\ LockUnchanged
    /\ UNCHANGED constructing

CtorLibrary(t) ==
        \/ \E arg \in 0..MaxDepth : MakeGcBegin(t, "Foo", arg)
        \/ MakeGcAlloc(t)
        \/ MakeGcFields(t)
        \/ MakeGcBody(t)
        \/ MakeGcFinish(t)
        \/ DeclareKeeper(t)
        \/ ResetKeeper(t)
        \/ BodyCapturesThis(t)
        \/ BodyCollects(t)
        \/ \E i \in 1..MaxSlots : DestroyVar(t, i)
        \/ CollectGarbage(t)

NextCtor ==
    /\ ConstructorsAlive(MainThread)
    /\ CtorLibrary(MainThread)
    /\ lastCall' = NoCall
    /\ UNCHANGED <<task, cancelTask, DEBUG, pendingNodeGraphChanges>>

SpecCtor == InitAnyBuild /\ [][NextCtor]_vars

(***************************************************************************)
(* The check of the type's flag in the mark phase.                         *)
(***************************************************************************)
\* the mark phase of a collection started in the current state runs
\* markAllocationAndProcessFields on an allocation whose type does not have
\* its flag set
ReachesUnfrozenType ==
    LET m == markPhase(existingAllocations, vGrayAllocations, allocType, NodeWorld)
    IN  \E i \in DOMAIN m.scanned :
           ~typeInfo[allocType[m.scanned[i]]].bAllGcNodeFieldOffsetsInitialized

\* the step is a call of collectGarbage that ended with the critical error
\* callback and an exception: nothing was swept
CollectRaisedCriticalError ==
    /\ criticalError'
    /\ ~lastCollect'.valid
    /\ existingAllocations' = existingAllocations

OnCycle(a) == a \in GcClosure(GcFieldTargets(a), {})

\* C34: the mark phase of a collection started in the current state comes to
\* an end, whatever the graph (cycles, several pointers to one allocation):
\* when it ends without the critical error the gray array is empty, and a
\* visit of a pointer to an allocation that is not WHITE pushes nothing.
C34_MarkPhaseEndsWithEmptyGrayArray ==
    LET m == markPhase(existingAllocations, vGrayAllocations, allocType, NodeWorld)
    IN  ~m.critical =>
            /\ m.gray = <<>>
            /\ \A a \in existingAllocations :
                  visitGcPtrItem(m, a).gray # m.gray => m.color[a] = "WHITE"

\* collectGarbage has returned from a graph in which a reachable allocation
\* lies on a cycle and is the target of two pointers: it is still there and
\* the gray array is empty
C34_Witness ==
    /\ lastCollect.called /\ lastCollect.valid
    /\ vGrayAllocations = <<>>
    /\ \E a \in existingAllocations :
          /\ a \in lastCollect.reachableBefore
          /\ OnCycle(a)
          /\ Cardinality({n \in DOMAIN ptrTarget : ptrTarget[n] = a}) >= 2

(***************************************************************************)
(* Objects under construction and the sweep.                               *)
(***************************************************************************)
\* C35: no step deletes an allocation that is in the array of constructing
\* objects (its constructor has not returned), also when the step is a
\* collectGarbage call made in the body of that constructor.
C35_ConstructingAllocationIsNeverFreed ==
    [][\A a \in Range(constructing) :
          a \in existingAllocations => a \in existingAllocations']_vars

(***************************************************************************)
(* The root sets and the nodes that are alive.                             *)
(***************************************************************************)
\* C36: every entry of the two root sets is a node that has not been
\* destroyed, in every state (so at the start of every collectGarbage and
\* when it returns: a root node destroyed with an object that the sweep
\* deleted has left the root sets).
C36_RootSetsHoldLivingNodes ==
    /\ gcPtrRootNodes \subseteq DOMAIN ptrTarget
    /\ gcContainerRootNodes \subseteq DOMAIN vData

\* collectGarbage has returned after deleting an object that held a root
\* node (a GcPtr in the std::vector of a StdFoo): the node is gone from the
\* root set
C36_Witness ==
    /\ lastCollect.called /\ lastCollect.returned > 0
    /\ \E n \in lastCollect.ptrRootsBefore : n \notin gcPtrRootNodes /\ n \notin DOMAIN ptrTarget

(***************************************************************************)
(* A GcPtr whose construction from a raw pointer fails.                    *)
(***************************************************************************)
\* C37: a step in which GcPtr(Type*) is left by the critical error leaves
\* both root sets as they were before the construction began: the pointer
\* under construction is in neither of them, and it no longer exists.
C37_FailedRawConstructionLeavesRootSets ==
    [][(lastCall'.op = "rawctor" /\ ~lastCall'.ok) =>
          /\ gcPtrRootNodes' = gcPtrRootNodes
          /\ gcContainerRootNodes' = gcContainerRootNodes
          /\ lastCall'.dst \notin DOMAIN ptrTarget']_vars

\* `sgc::GcPtr<Foo> pGcFoo = pFoo;` with pFoo not from makeGc has thrown while
\* other root pointers exist
C37_Witness ==
    /\ lastCall.op = "rawctor" /\ ~lastCall.ok
    /\ criticalError
    /\ gcPtrRootNodes # {}
    /\ lastCall.dst \notin gcPtrRootNodes

(***************************************************************************)
(* The array of constructing objects and the makeGc calls in progress.     *)
(***************************************************************************)
\* the allocations of the makeGc calls of thread t whose guard exists, the
\* outermost call first
RECURSIVE GuardedAllocations(_)
GuardedAllocations(calls) ==
    IF calls = <<>> THEN <<>>
    ELSE IF Head(calls).op = "makeGc" /\ Head(calls).alloc # NULL
         THEN <<Head(calls).alloc>> \o GuardedAllocations(Tail(calls))
         ELSE GuardedAllocations(Tail(calls))

\* C39: the array of constructing objects holds the allocations of the makeGc
\* calls in progress, in call order, and nothing else: the guard of a call
\* that returns or is left by an exception has erased its own allocation and
\* left the entries of the enclosing calls as they were before the call.
C39_GuardRestoresConstructingArray ==
    constructing = GuardedAllocations(frames[MainThread])

\* the constructor of a nested makeGc call has thrown: the array holds the
\* allocation of the enclosing call again, and nothing else
C39_Witness ==
    /\ lastCall.op = "throw"
    /\ Len(frames[MainThread]) = 1
    /\ constructing = <<Top(MainThread).alloc>>
    /\ lastCall.raw # Top(MainThread).alloc

(***************************************************************************)
(* A GcPtr variable declared by a second thread while the main thread      *)
(* constructs objects.  GcPtrBase(bCanBeRootNode) calls                    *)
(* onGcNodeConstructed, which first walks the array of constructing        *)
(* objects under mtxCurrentlyConstructingObjects.first and, when the node  *)
(* is in none of them, locks mtxGcData.first to insert the node into the   *)
(* root set.  The walk is one step, the insertion another.                 *)
(***************************************************************************)
ScannerThread == MainThread + 1

\* the walk over the array of constructing objects for `sgc::GcPtr<T> p;`
NodeScan(t) ==
    /\ Idle(t)
    /\ FreeSlots(t) # {}
    /\ LET node == VarAddr(t, MinOf(FreeSlots(t)))
           r == findParentAllocation(Len(constructing), constructing, allocType, typeInfo,
                                     node, "ptr")
       IN  IF r.belongs
           THEN /\ SetWorld(constructGcPtr(NodeWorld, node, TRUE, constructing, allocType))
                /\ frames' = frames
           ELSE /\ frames' = [frames EXCEPT ![t] = Append(@,
                       [op |-> "node", pc |-> "register", type |-> "none", arg |-> 0,
                        node |-> node, alloc |-> NULL, dest |-> NULL])]
                /\ UNCHANGED <<typeInfo, ptrTarget, vData, isRoot, stdItems, gcPtrRootNodes,
                               gcContainerRootNodes>>
    /\ lastCollect' = NoCollect
    /\ criticalError' = FALSE
    /\ AllocUnchanged
    /\ LockUnchanged
    /\ UNCHANGED <<constructing, vGrayAllocations>>

\* the node was found in no constructing object: it becomes a root node
NodeRegister(t) ==
    /\ ~Idle(t)
    /\ Top(t).op = "node" /\ Top(t).pc = "register"
    /\ CanLock(t)
    /\ SetWorld(constructGcPtr(NodeWorld, Top(t).node, TRUE, <<>>, allocType))
    /\ frames' = Pop(t)
    /\ lastCollect' = NoCollect
    /\ criticalError' = FALSE
    /\ AllocUnchanged
    /\ LockUnchanged
    /\ UNCHANGED <<constructing, vGrayAllocations>>

ScanLibrary ==
        \/ \E arg \in 0..MaxDepth : MakeGcBegin(MainThread, "Foo", arg)
        \/ MakeGcAlloc(MainThread)
        \/ MakeGcFields(MainThread)
        \/ MakeGcBody(MainThread)
        \/ MakeGcFinish(MainThread)
        \/ \E t \in {MainThread, ScannerThread}, i \in 1..MaxSlots : DestroyVar(t, i)
        \/ NodeScan(ScannerThread)
        \/ NodeRegister(ScannerThread)
        \/ CollectGarbage(MainThread)

NextScan == ScanLibrary /\ lastCall' = NoCall
                        /\ UNCHANGED <<task, cancelTask, DEBUG, pendingNodeGraphChanges>>

SpecScan == Init /\ [][NextScan]_vars

(***************************************************************************)
(* Who reads and writes the array of constructing objects.                 *)
(***************************************************************************)
\* the step changes the array and thread t, in a makeGc call, takes it while
\* it holds the mutex: it owns the mutex before the step (the guard's
\* destructor) or from the step on (initializeFromNewAllocation locks, then
\* the guard's constructor pushes)
GuardStepOf(t) ==
    /\ ~Idle(t) /\ Top(t).op = "makeGc"
    /\ frames'[t] # frames[t]
    /\ gcOwner = t \/ gcOwner' = t

\* the step is thread t's walk over the array for a node outside of makeGc
ScanStepOf(t) ==
    /\ Idle(t)
    /\ frames'[t] # <<>>
    /\ frames'[t][1].op = "node"

\* the array is written by the construction guard only, by a thread that
\* holds the mutex
WritesHoldTheMutex ==
    constructing' # constructing => \E t \in Threads : GuardStepOf(t)

notePendingRootNode(changes, node, kind, stack, types, tinfo) ==
    LET r == findParentAllocation(Len(stack), stack, types, tinfo, node, kind)
    IN  [bRoot |-> ~r.belongs,
         tinfo |-> r.tinfo,
         changes |-> IF r.belongs THEN changes
                     ELSE IF kind = "cont"
                     THEN [changes EXCEPT !.newGcContainerRootNodes = @ \cup {node}]
                     ELSE [changes EXCEPT !.newGcPtrRootNodes = @ \cup {node}]]

\* GarbageCollector::onGcRootNodeBeingDestroyed: a node still noted as new is
\* only taken out of the new nodes, any other is noted as destroyed
noteDestroyedRootNode(changes, node, kind) ==
    IF kind = "cont"
    THEN IF node \in changes.newGcContainerRootNodes
         THEN [changes EXCEPT !.newGcContainerRootNodes = @ \ {node}]
         ELSE [changes EXCEPT !.destroyedGcContainerRootNodes = @ \cup {node}]
    ELSE IF node \in changes.newGcPtrRootNodes
         THEN [changes EXCEPT !.newGcPtrRootNodes = @ \ {node}]
         ELSE [changes EXCEPT !.destroyedGcPtrRootNodes = @ \cup {node}]

\* the loop that erases the destroyed nodes from a root set: it stops with a
\* critical error at a node that is not in the set
RECURSIVE eraseDestroyed(_, _)
eraseDestroyed(r, todo) ==
    IF r.critical \/ todo = <<>> THEN r
    ELSE IF Head(todo) \in r.nodes
         THEN eraseDestroyed([r EXCEPT !.nodes = @ \ {Head(todo)}], Tail(todo))
         ELSE [r EXCEPT !.critical = TRUE]

\* the new nodes inserted first, the destroyed ones erased afterwards
applyNewThenDestroyed(ptrRoots, contRoots, changes) ==
    LET p == eraseDestroyed([nodes |-> ptrRoots \cup changes.newGcPtrRootNodes,
                             critical |-> FALSE],
                            SetToSeq(changes.destroyedGcPtrRootNodes))
        c == eraseDestroyed([nodes |-> contRoots \cup changes.newGcContainerRootNodes,
                             critical |-> FALSE],
                            SetToSeq(changes.destroyedGcContainerRootNodes))
    IN  [gcPtrRootNodes |-> p.nodes, gcContainerRootNodes |-> c.nodes,
         changes |-> NoPendingChanges, critical |-> p.critical \/ c.critical]

\* GarbageCollector::applyPendingChanges: the destroyed nodes are erased, then
\* the new ones inserted, each set cleared after its loop; the exception of a
\* critical error leaves the sets of the loops not yet finished as they are
applyPendingChanges(ptrRoots, contRoots, changes) ==
    LET p == eraseDestroyed([nodes |-> ptrRoots, critical |-> FALSE],
                            SetToSeq(changes.destroyedGcPtrRootNodes))
        c == eraseDestroyed([nodes |-> contRoots, critical |-> FALSE],
                            SetToSeq(changes.destroyedGcContainerRootNodes))
    IN  IF p.critical
        THEN [gcPtrRootNodes |-> p.nodes, gcContainerRootNodes |-> contRoots,
              changes |-> changes, critical |-> TRUE]
        ELSE IF c.critical
        THEN [gcPtrRootNodes |-> p.nodes, gcContainerRootNodes |-> c.nodes,
              changes |-> [changes EXCEPT !.destroyedGcPtrRootNodes = {}],
              critical |-> TRUE]
        ELSE [gcPtrRootNodes |-> p.nodes \cup changes.newGcPtrRootNodes,
              gcContainerRootNodes |-> c.nodes \cup changes.newGcContainerRootNodes,
              changes |-> NoPendingChanges, critical |-> FALSE]

\* the reset, the mark and the sweep of collectGarbage on the root sets that
\* applyPendingChanges left
markAndSweep(world) ==
    LET m == markPhase(existingAllocations, vGrayAllocations, allocType, world)
        s0 == [existing |-> existingAllocations, infoRefs |-> allocationInfoRefs,
               world |-> world, warnings |-> 0, iDeletedObjectCount |-> 0]
        s == IF m.critical THEN s0
             ELSE sweepPhase(s0, SetToSeq(existingAllocations), m.color, allocType)
    IN  [mark |-> m, sweep |-> s]

PendingUnchanged ==
    /\ AllocUnchanged
    /\ LockUnchanged
    /\ UNCHANGED <<stdItems, gcPtrRootNodes, gcContainerRootNodes, constructing,
                   vGrayAllocations, frames>>

\* `sgc::GcPtr<T> p;`
PendingNewVar(t) ==
    /\ Idle(t)
    /\ FreeSlots(t) # {}
    /\ LET node == VarAddr(t, MinOf(FreeSlots(t)))
           n == notePendingRootNode(pendingNodeGraphChanges, node, "ptr", constructing,
                                    allocType, typeInfo)
       IN  /\ pendingNodeGraphChanges' = n.changes
           /\ typeInfo' = n.tinfo
           /\ isRoot' = Put(isRoot, node, n.bRoot)
           /\ ptrTarget' = Put(ptrTarget, node, NULL)
    /\ lastCollect' = NoCollect
    /\ criticalError' = FALSE
    /\ PendingUnchanged
    /\ UNCHANGED vData

\* the end of the life of a GcPtr variable
PendingDestroyVar(t, i) ==
    /\ Idle(t)
    /\ i \in LiveVars(t)
    /\ LET node == VarAddr(t, i)
       IN  /\ pendingNodeGraphChanges' =
                  IF isRoot[node]
                  THEN noteDestroyedRootNode(pendingNodeGraphChanges, node, "ptr")
                  ELSE pendingNodeGraphChanges
           /\ isRoot' = Drop(isRoot, {node})
           /\ ptrTarget' = Drop(ptrTarget, {node})
    /\ lastCollect' = NoCollect
    /\ criticalError' = FALSE
    /\ PendingUnchanged
    /\ UNCHANGED <<typeInfo, vData>>

\* `sgc::GcVector<T> v;`
PendingNewVecVar(t) ==
    /\ Idle(t)
    /\ VecVarAddr(t) \notin DOMAIN vData
    /\ LET node == VecVarAddr(t)
           n == notePendingRootNode(pendingNodeGraphChanges, node, "cont", constructing,
                                    allocType, typeInfo)
       IN  /\ pendingNodeGraphChanges' = n.changes
           /\ typeInfo' = n.tinfo
           /\ isRoot' = Put(isRoot, node, n.bRoot)
           /\ vData' = Put(vData, node, <<>>)
    /\ lastCollect' = NoCollect
    /\ criticalError' = FALSE
    /\ PendingUnchanged
    /\ UNCHANGED ptrTarget

\* the end of the life of a GcVector variable
PendingDestroyVecVar(t) ==
    /\ Idle(t)
    /\ VecVarAddr(t) \in DOMAIN vData
    /\ LET node == VecVarAddr(t)
       IN  /\ pendingNodeGraphChanges' =
                  IF isRoot[node]
                  THEN noteDestroyedRootNode(pendingNodeGraphChanges, node, "cont")
                  ELSE pendingNodeGraphChanges
           /\ isRoot' = Drop(isRoot, {node})
           /\ vData' = Drop(vData, {node})
    /\ lastCollect' = NoCollect
    /\ criticalError' = FALSE
    /\ PendingUnchanged
    /\ UNCHANGED <<typeInfo, ptrTarget>>

\* collectGarbage once applyPendingChanges has returned a
collectWithApplied(a) ==
    IF a.critical
    THEN /\ gcPtrRootNodes' = a.gcPtrRootNodes
         /\ gcContainerRootNodes' = a.gcContainerRootNodes
         /\ criticalError' = TRUE
         /\ lastCollect' = [NoCollect EXCEPT !.called = TRUE,
                                             !.pendingBefore = pendingNodeGraphChanges]
         /\ AllocUnchanged
         /\ UNCHANGED <<typeInfo, ptrTarget, vData, isRoot, stdItems, vGrayAllocations>>
    ELSE returnFromCollect(collectOutcome(markAndSweep(
             [NodeWorld EXCEPT !.gcPtrRootNodes = a.gcPtrRootNodes,
                               !.gcContainerRootNodes = a.gcContainerRootNodes])))

\* GarbageCollector::get().collectGarbage()
PendingCollectGarbage(t) ==
    /\ Idle(t)
    /\ CanLock(t)
    /\ collectWithApplied(applyPendingChanges(gcPtrRootNodes, gcContainerRootNodes,
                                              pendingNodeGraphChanges))
    /\ pendingNodeGraphChanges' =
           applyPendingChanges(gcPtrRootNodes, gcContainerRootNodes,
                               pendingNodeGraphChanges).changes
    /\ LockUnchanged
    /\ UNCHANGED <<constructing, frames>>

PendingLibrary(t) ==
        \/ PendingNewVar(t)
        \/ \E i \in 1..MaxSlots : PendingDestroyVar(t, i)
        \/ PendingNewVecVar(t)
        \/ PendingDestroyVecVar(t)
        \/ PendingCollectGarbage(t)

NextPending ==
    /\ \E t \in {MainThread, ScannerThread} : PendingLibrary(t)
    /\ lastCall' = NoCall
    /\ UNCHANGED <<task, cancelTask, DEBUG>>

SpecPending == Init /\ [][NextPending]_vars

(***************************************************************************)
(* The root sets after the pending changes were applied.                   *)
(***************************************************************************)
LiveRootGcPtrs == {n \in DOMAIN ptrTarget : n \in DOMAIN isRoot /\ isRoot[n]}
LiveRootGcContainers == {n \in DOMAIN vData : n \in DOMAIN isRoot /\ isRoot[n]}

\* C38: when collectGarbage, which begins with applyPendingChanges, has
\* returned, the root sets hold exactly the living root nodes, nothing is
\* pending and no critical error was raised, whatever was constructed and
\* destroyed since the collection before.
C38_AppliedChangesGiveLiveRoots ==
    lastCollect.called =>
        /\ gcPtrRootNodes = LiveRootGcPtrs
        /\ gcContainerRootNodes = LiveRootGcContainers
        /\ pendingNodeGraphChanges = NoPendingChanges
        /\ ~criticalError

\* a collection has applied the notes of a root GcPtr that was destroyed and
\* of a new one constructed at the same address, next to a root node that
\* was only destroyed
C38_Witness ==
    /\ lastCollect.called
    /\ \E n \in lastCollect.pendingBefore.destroyedGcPtrRootNodes
                    \cap lastCollect.pendingBefore.newGcPtrRootNodes :
           n \in gcPtrRootNodes
    /\ lastCollect.pendingBefore.destroyedGcContainerRootNodes # {}

====
